---- MODULE Spec2Model ----
(***************************************************************************)
(* Chain synchronisation of the node: the WalletSyncStatus coordinator,    *)
(* ChainSource::sync_onchain_wallet, ChainSource::sync_lightning_wallet    *)
(* and the monitor archival housekeeping of src/src/chain/mod.rs, run by   *)
(* a few concurrent callers (the background loop, manual sync calls);       *)
(* ChainSource::update_fee_rate_estimates; the background loop             *)
(* ChainSource::continuously_sync_wallets and the per-kind background      *)
(* tasks of Node::start / Node::stop of src/src/lib.rs.                    *)
(***************************************************************************)
EXTENDS Integers, FiniteSets, Sequences, TLC

\* ------------------------------------------------------------------ bounds
NumCallers == 2

\* The archival interval in blocks (config.rs is not part of the sources; the
\* value is the one the specification's example uses).
RESOLVED_CHANNEL_MONITOR_ARCHIVAL_INTERVAL == 4032

Callers == 1..NumCallers
Kinds == {"onchain", "lightning"}

\* Option<T>: None is the empty sequence, Some(v) the one-element sequence.
None == <<>>
Some(v) == <<v>>

\* SystemTime::now().duration_since(UNIX_EPOCH).ok().map(|d| d.as_secs())
UnixTimeSecsOpts == {None, Some(1)}

\* Best block heights the channel manager may report after a sync.
Heights == {100, 4132, 4199}

\* config.network
Networks == {"Bitcoin", "Testnet", "Signet", "Regtest"}

\* The timers of the background loop.
TimerKinds == {"onchain", "fee", "lightning"}

\* Result<(), Error> values of the sync operations.
Results ==
  {"Ok", "WalletOperationFailed", "WalletOperationTimeout", "TxSyncFailed",
   "TxSyncTimeout", "PersistenceFailed"}

VARIABLES
  status,            \* WalletSyncStatus per kind
  receivers,         \* live broadcast receivers of the kind's current notifier
  inbox,             \* per caller: what its receiver holds
  pc,                \* per caller: position in its invocation
  kind,              \* per caller: which sync it is running
  leader,            \* per caller: TRUE when register_or_subscribe returned None
  incremental_sync,  \* per caller: the local of sync_onchain_wallet
  request,           \* per caller: the provider call it issued
  sync_res,          \* per caller: outcome of its provider call
  recorded,          \* per caller: its timestamp block wrote NodeMetrics
  ts_before,         \* per leader: the kind's timestamp when its call started
  res,               \* per caller: the Result it returned or is about to
  node_metrics,      \* in-memory NodeMetrics
  kv_node_metrics,   \* NodeMetrics as last written to the key-value store
  best_height,       \* channel_manager.current_best_block().height
  confirmable_height,\* best block height the other Confirmables were told
  housekeeping       \* per caller: what its run of the archival housekeeping did

VARIABLES
  network,             \* config.network
  fee_rate_cache,      \* the fee estimator's cache: target -> sat/kwu
  fee_pc,              \* position of the update_fee_rate_estimates call
  estimates,           \* its local: what get_fee_estimates answered
  unix_time_secs_opt,  \* its local: the clock reading of its metrics block
  fee_res              \* the Result it returned

VARIABLES
  ticks_ready,         \* per timer kind: ticks its interval delivers at once
  stop_sent,           \* stop_sender.send(()) has happened
  loop_pc,             \* per background loop: position in its select! loop
  in_flight,           \* per timer kind: engine calls dispatched, not finished
  engine_result,       \* per timer kind: what the last engine call returned
  runtime              \* the node's tokio runtime

VARIABLES
  wallet_pc,           \* per caller: position in Wallet::sync of wallet.rs
  sync_lock,           \* the mutex of Wallet::sync_lock: its holder, if any
  inner_lock,          \* the mutex Wallet::inner: its holder, if any
  scan_requests,       \* per caller: wallet syncs its invocation requested
  wallet_res,          \* per caller: the Result of its Wallet::sync
  woken_by             \* per waiter: the Result of the caller that woke it

VARIABLES
  debug_assertions,    \* the build has debug assertions enabled
  provider_silent      \* the chain data provider answers no request

VARIABLES
  broadcast_queue,     \* packages sent to the broadcaster, not yet received
  next_package,        \* process_broadcast_queue: the package it works on
  tx_index,            \* its position in the package's transactions
  broadcast_calls,     \* per transaction: esplora_client.broadcast calls made
  broadcast_log        \* per transaction: what its last broadcast logged

VARIABLES
  payments,            \* PaymentStore::payments, the in-memory map
  kv_payments,         \* the payment namespace of the key-value store
  payment_call,        \* the last call on the store and its argument
  payment_ret          \* what that call returned

VARIABLES
  api_call,            \* the last call of the Node API, and its turn
  api_ret,             \* what that call returned
  last_ok,             \* start or stop, whichever returned Ok last
  liquidity_source     \* the node was built with a liquidity source

VARIABLES
  lock_pc,             \* per task: position between its lock operations
  held,                \* per task: the locks it holds, with their mode
  poisoned             \* the locks a panic has poisoned

\* The variables of the two sync operations alone.
syncVars ==
  <<status, receivers, inbox, pc, kind, leader, incremental_sync, request,
    sync_res, recorded, ts_before, res, best_height, confirmable_height,
    housekeeping>>

metricsVars == <<node_metrics, kv_node_metrics>>

feeVars ==
  <<network, fee_rate_cache, fee_pc, estimates, unix_time_secs_opt, fee_res>>

schedVars ==
  <<ticks_ready, stop_sent, loop_pc, in_flight, engine_result, runtime>>

walletVars ==
  <<wallet_pc, sync_lock, inner_lock, scan_requests, wallet_res, woken_by>>

envVars == <<debug_assertions, provider_silent>>

queueVars ==
  <<broadcast_queue, next_package, tx_index, broadcast_calls, broadcast_log>>

storeVars == <<payments, kv_payments, payment_call, payment_ret>>

apiVars == <<api_call, api_ret, last_ok, liquidity_source>>

lockVars == <<lock_pc, held, poisoned>>

vars ==
  <<syncVars, metricsVars, feeVars, schedVars, walletVars, envVars, queueVars,
    storeVars, apiVars, lockVars>>

\* ------------------------------------------------------------- NodeMetrics
DefaultNodeMetrics ==
  [latest_onchain_wallet_sync_timestamp |-> None,
   latest_lightning_wallet_sync_timestamp |-> None,
   latest_fee_rate_cache_update_timestamp |-> None,
   latest_channel_monitor_archival_height |-> None]

TimestampField(k) ==
  IF k = "onchain" THEN "latest_onchain_wallet_sync_timestamp"
  ELSE "latest_lightning_wallet_sync_timestamp"

\* write_node_metrics: the record reaches the store, or the write fails and
\* the store keeps what it had.
write_node_metrics(metrics, stored, ok) ==
  IF ok THEN [result |-> "Ok", stored |-> metrics]
  ELSE [result |-> "PersistenceFailed", stored |-> stored]

\* ------------------------------------------------------- WalletSyncStatus
\* One coordinator that both sync kinds go through.
SharedCoordinator(k) == "onchain"

\* The coordinator a sync of kind k consults: onchain_wallet_sync_status for
\* the on-chain sync, lightning_wallet_sync_status for the Lightning sync;
\* each is named here after its kind.
Coordinator(k) == k

\* A coordinator that makes every caller a leader.
register_always_leader(st) ==
  [status |-> "InProgress", receiver |-> FALSE]

\* A coordinator that hands out the leader role without recording the pass.
register_without_transition(st) ==
  [status |-> st, receiver |-> st # "Completed"]

\* register_or_subscribe_pending_sync: None (no receiver) makes the caller the
\* leader of a new pass, Some(rx) makes it a subscriber of the running one.
register_or_subscribe_pending_sync(st) ==
  IF st = "Completed"
  THEN [status |-> "InProgress", receiver |-> FALSE]
  ELSE [status |-> st, receiver |-> TRUE]

\* A propagate that replaces the status, dropping the Sender, without sending.
propagate_drop_without_send(st, rcv) ==
  IF st = "Completed"
  THEN [status |-> st, sent_to |-> {}, sender_dropped |-> FALSE]
  ELSE [status |-> "Completed", sent_to |-> {}, sender_dropped |-> TRUE]

\* propagate_result_to_subscribers: on Completed nothing happens; on
\* InProgress the result is sent when receiver_count() > 0 and the status,
\* and with it the Sender, is replaced by Completed.
propagate_result_to_subscribers(st, rcv) ==
  IF st = "Completed"
  THEN [status |-> st, sent_to |-> {}, sender_dropped |-> FALSE]
  ELSE [status |-> "Completed",
        sent_to |-> IF Cardinality(rcv) > 0 THEN rcv ELSE {},
        sender_dropped |-> TRUE]

\* The two reads of the notifier inside propagate_result_to_subscribers, for
\* callers whose receivers can go away in between. First the match on the
\* status and the test receiver_count() > 0:
propagate_count_check(st, rcv) ==
  CASE st = "Completed" -> "return"
    [] Cardinality(rcv) > 0 -> "send"
    [] OTHER -> "reset"

\* then subscribers.send(res): it reaches the receivers that are left, and
\* fails when none is; the failure trips debug_assert!(false, ..), a panic in
\* a build with debug assertions, and is only logged otherwise.
propagate_send(rcv, debug) ==
  IF rcv # {}
  THEN [delivered |-> rcv, panics |-> FALSE]
  ELSE [delivered |-> {}, panics |-> debug]

\* What a caller's run of the housekeeping saw and did (it has not run it).
NoHousekeeping ==
  [ran |-> FALSE, latest |-> None, cur_height |-> 0, archived |-> FALSE]

\* ------------------------------------------------------------ Confirmables
\* The consumers of chain confirmations the node has.
Confirmables == {"channel_manager", "chain_monitor", "output_sweeper"}

\* The channel manager's best block is best_height; the others' are kept in
\* confirmable_height.
OtherConfirmables == Confirmables \ {"channel_manager"}

\* A batch that leaves the output sweeper out.
sync_confirmables_without_sweeper == {"channel_manager", "chain_monitor"}

\* let confirmables = vec![&*sync_cman, &*sync_cmon, &*sync_sweeper]
sync_confirmables == {"channel_manager", "chain_monitor", "output_sweeper"}

\* The best block height of every Confirmable.
best_block_heights(cman_height, other_heights) ==
  [cf \in Confirmables |->
     IF cf = "channel_manager" THEN cman_height ELSE other_heights[cf]]

\* tx_sync.sync(confirmables) that succeeds with the chain tip at height tip:
\* every Confirmable of the batch had best_block_updated called with that
\* tip; a Confirmable that is not in the batch is not told.
tx_sync_sync(confirmables, heights, tip) ==
  [cf \in Confirmables |-> IF cf \in confirmables THEN tip ELSE heights[cf]]

\* ------------------------------------------------------------------- Init
\* No fee rate update is running and none has run: the cache is empty.
FeeInit ==
  /\ network \in Networks
  /\ fee_rate_cache = <<>>
  /\ fee_pc = "idle"
  /\ estimates = None
  /\ unix_time_secs_opt = None
  /\ fee_res = "none"

\* The node has not been started: no background loop exists.
NotStarted ==
  /\ ticks_ready = [k \in TimerKinds |-> 0]
  /\ stop_sent = FALSE
  /\ loop_pc = <<>>
  /\ in_flight = [k \in TimerKinds |-> 0]
  /\ engine_result = [k \in TimerKinds |-> "none"]
  /\ runtime = "none"

\* No caller is in Wallet::sync of wallet.rs.
WalletInit ==
  /\ wallet_pc = [c \in Callers |-> "idle"]
  /\ sync_lock = None
  /\ inner_lock = None
  /\ scan_requests = [c \in Callers |-> 0]
  /\ wallet_res = [c \in Callers |-> "none"]
  /\ woken_by = [c \in Callers |-> "none"]

\* process_broadcast_queue waits for a package; nothing was sent to it.
BroadcastInit ==
  /\ broadcast_queue = <<>>
  /\ next_package = None
  /\ tx_index = 0
  /\ broadcast_calls = <<>>
  /\ broadcast_log = <<>>

\* Payment hashes the store is called with.
PaymentHashes == {"h1", "h2"}

\* PaymentStore::new(Vec::new(), ..) on an empty key-value store.
PaymentStoreInit ==
  /\ payments = [h \in PaymentHashes |-> None]
  /\ kv_payments = [h \in PaymentHashes |-> None]
  /\ payment_call = [op |-> "none", hash |-> "none", arg |-> None]
  /\ payment_ret = "none"

\* A call of the Node API is recorded with a turn that alternates, so that
\* two calls of the same method in a row are told apart.
NextCall(method) == [method |-> method, turn |-> 1 - api_call.turn]

\* No call of the Node API was made; no liquidity source is configured.
ApiInit ==
  /\ api_call = [method |-> "none", turn |-> 0]
  /\ api_ret = "none"
  /\ last_ok = "none"
  /\ liquidity_source = FALSE

\* No task is looked at lock by lock.
NoTasks ==
  /\ lock_pc = <<>>
  /\ held = <<>>
  /\ poisoned = {}

SyncInit ==
  /\ status = [k \in Kinds |-> "Completed"]
  /\ receivers = [k \in Kinds |-> {}]
  /\ inbox = [c \in Callers |-> "none"]
  /\ pc = [c \in Callers |-> "idle"]
  /\ kind = [c \in Callers |-> "none"]
  /\ leader = [c \in Callers |-> FALSE]
  /\ incremental_sync = [c \in Callers |-> FALSE]
  /\ request = [c \in Callers |-> "none"]
  /\ sync_res = [c \in Callers |-> "none"]
  /\ recorded = [c \in Callers |-> FALSE]
  /\ ts_before = [c \in Callers |-> None]
  /\ res = [c \in Callers |-> "none"]
  /\ node_metrics = DefaultNodeMetrics
  /\ kv_node_metrics = DefaultNodeMetrics
  /\ best_height \in {100}
  /\ confirmable_height = [cf \in OtherConfirmables |-> best_height]
  /\ housekeeping = [c \in Callers |-> NoHousekeeping]

Init ==
  /\ SyncInit
  /\ FeeInit /\ network = "Bitcoin"
  /\ NotStarted
  /\ WalletInit
  /\ provider_silent = FALSE
  /\ BroadcastInit
  /\ PaymentStoreInit
  /\ ApiInit
  /\ NoTasks
  /\ debug_assertions = FALSE

\* The status mutex of coordinator k can be locked: no caller is inside
\* propagate_result_to_subscribers between its two reads of the notifier, and
\* none has panicked there holding the guard.
StatusLockFree(k) ==
  \A d \in Callers :
    ~(pc[d] \in {"send", "panicked"} /\ Coordinator(kind[d]) = k)

\* A full scan or an incremental sync is requested, depending on the local
\* incremental_sync of sync_onchain_wallet.
onchain_scan_request(incremental) ==
  IF incremental THEN "full_scan" ELSE "sync"

\* --------------------------------------------- entry of both sync operations
\* sync_onchain_wallet / sync_lightning_wallet are entered and consult the
\* coordinator of their kind under its mutex. A subscriber goes on to await
\* its receiver. A leader goes on to its provider call, with no await in
\* between: sync_onchain_wallet reads whether an on-chain timestamp is
\* recorded (only the on-chain leader, this caller, ever writes it) and awaits
\* the timed Esplora scan; sync_lightning_wallet awaits the timed tx_sync.sync
\* of the confirmables.
SyncEntered(c, k) ==
  /\ pc[c] = "idle"
  /\ StatusLockFree(Coordinator(k))
  /\ LET r == register_or_subscribe_pending_sync(status[Coordinator(k)])
         inc == k = "onchain"
                /\ node_metrics.latest_onchain_wallet_sync_timestamp # None
     IN /\ status' = [status EXCEPT ![Coordinator(k)] = r.status]
        /\ receivers' =
             [receivers EXCEPT
                ![Coordinator(k)] = IF r.receiver THEN @ \cup {c} ELSE {}]
        /\ leader' = [leader EXCEPT ![c] = ~r.receiver]
        /\ pc' = [pc EXCEPT ![c] = IF r.receiver THEN "subscribed" ELSE "provider"]
        /\ ts_before' =
             [ts_before EXCEPT ![c] =
                IF r.receiver THEN None ELSE node_metrics[TimestampField(k)]]
        /\ incremental_sync' =
             [incremental_sync EXCEPT ![c] = ~r.receiver /\ inc]
        /\ request' =
             [request EXCEPT ![c] =
                CASE r.receiver -> "none"
                  [] k = "onchain" -> onchain_scan_request(inc)
                  [] OTHER -> "tx_sync"]
  /\ kind' = [kind EXCEPT ![c] = k]
  /\ UNCHANGED <<inbox, sync_res, recorded, res, node_metrics, kv_node_metrics,
                 best_height, confirmable_height, housekeeping>>

\* A call of sync_onchain_wallet / sync_lightning_wallet by a caller of its
\* own (Node::sync_wallets, or a background task that does nothing else).
RegisterOrSubscribe(c, k) ==
  /\ SyncEntered(c, k)
  /\ UNCHANGED <<feeVars, schedVars, walletVars, envVars, queueVars,
                 storeVars,
                 apiVars, lockVars>>

\* The locals of an invocation end with it.
DropLocals(c) ==
  /\ kind' = [kind EXCEPT ![c] = "none"]
  /\ leader' = [leader EXCEPT ![c] = FALSE]
  /\ ts_before' = [ts_before EXCEPT ![c] = None]
  /\ incremental_sync' = [incremental_sync EXCEPT ![c] = FALSE]
  /\ request' = [request EXCEPT ![c] = "none"]
  /\ sync_res' = [sync_res EXCEPT ![c] = "none"]
  /\ recorded' = [recorded EXCEPT ![c] = FALSE]

\* sync_receiver.recv().await.map_err(..)?: the Result the leader sent is the
\* subscriber's Result; a RecvError runs the closure, which starts with
\* debug_assert!(false, ..), a panic in a build with debug assertions, and
\* otherwise logs and answers WalletOperationFailed.
subscriber_recv(msg, debug) ==
  IF msg = "closed"
  THEN [result |-> "WalletOperationFailed", panics |-> debug]
  ELSE [result |-> msg, panics |-> FALSE]

\* A subscriber's sync_receiver.recv().await returns and the subscriber
\* returns what it made of it, or panics.
SubscriberRecv(c) ==
  /\ pc[c] = "subscribed"
  /\ UNCHANGED <<feeVars, schedVars, walletVars, envVars, queueVars,
                 storeVars,
                 apiVars, lockVars>>
  /\ inbox[c] # "none"
  /\ LET r == subscriber_recv(inbox[c], debug_assertions)
     IN /\ res' = [res EXCEPT ![c] = IF r.panics THEN @ ELSE r.result]
        /\ pc' = [pc EXCEPT ![c] = IF r.panics THEN "panicked" ELSE "done"]
  /\ inbox' = [inbox EXCEPT ![c] = "none"]
  /\ DropLocals(c)
  /\ UNCHANGED <<status, receivers, node_metrics, kv_node_metrics, best_height,
                 confirmable_height,
                 housekeeping>>

\* The leader hands its result to the coordinator and returns it.
Propagate(c) ==
  /\ pc[c] = "propagate"
  /\ UNCHANGED <<feeVars, schedVars, walletVars, envVars, queueVars,
                 storeVars,
                 apiVars, lockVars>>
  /\ LET k == Coordinator(kind[c])
         p == propagate_result_to_subscribers(status[k], receivers[k])
     IN /\ status' = [status EXCEPT ![k] = p.status]
        /\ inbox' =
             [s \in Callers |->
                IF s \in p.sent_to THEN res[c]
                ELSE IF p.sender_dropped /\ s \in receivers[k] THEN "closed"
                ELSE inbox[s]]
        /\ receivers' = [receivers EXCEPT ![k] = IF p.sender_dropped THEN {} ELSE @]
  /\ pc' = [pc EXCEPT ![c] = "done"]
  /\ DropLocals(c)
  /\ housekeeping' = [housekeeping EXCEPT ![c] = NoHousekeeping]
  /\ UNCHANGED <<res, node_metrics, kv_node_metrics, best_height,
                 confirmable_height>>

\* The `?` on write_node_metrics leaves the function at once with its error.
EarlyReturn(c, e) ==
  /\ res' = [res EXCEPT ![c] = e]
  /\ pc' = [pc EXCEPT ![c] = "done"]
  /\ DropLocals(c)

\* The caller has its Result; its locals go away.
SyncReturned(c) ==
  /\ pc[c] = "done"
  /\ pc' = [pc EXCEPT ![c] = "idle"]
  /\ res' = [res EXCEPT ![c] = "none"]
  /\ housekeeping' = [housekeeping EXCEPT ![c] = NoHousekeeping]
  /\ UNCHANGED <<status, receivers, inbox, kind, leader, incremental_sync,
                 request, sync_res, recorded, ts_before, node_metrics,
                 kv_node_metrics, best_height, confirmable_height>>

Return(c) ==
  /\ SyncReturned(c)
  /\ UNCHANGED <<feeVars, schedVars, walletVars, envVars, queueVars,
                 storeVars,
                 apiVars, lockVars>>

\* ------------------------------------------------------ sync_onchain_wallet
OnchainOutcomes == {"ok", "reqwest_error", "esplora_error", "timeout"}

\* A match whose timeout arm answers like the provider error arms.
get_and_apply_wallet_update_timeout_as_failed(outcome, apply_ok) ==
  CASE outcome = "ok" /\ apply_ok -> "none"
    [] OTHER -> "WalletOperationFailed"

\* What the match of get_and_apply_wallet_update saw: the outcome of the
\* timed scan, or that the wallet failed to apply the update it got.
onchain_sync_res(outcome, apply_ok) ==
  IF outcome = "ok" /\ ~apply_ok THEN "apply_failed" ELSE outcome

\* get_and_apply_wallet_update up to the timestamp block: the Result of every
\* arm that does not reach it, "none" for the arm that does.
get_and_apply_wallet_update(outcome, apply_ok) ==
  CASE outcome = "timeout" -> "WalletOperationTimeout"
    [] outcome = "reqwest_error" -> "WalletOperationFailed"
    [] outcome = "esplora_error" -> "WalletOperationFailed"
    [] outcome = "ok" /\ ~apply_ok -> "WalletOperationFailed"
    [] OTHER -> "none"

\* The block holding node_metrics.write(): the field is assigned in memory,
\* then the record is written to the store.
record_sync_timestamp(metrics, stored, k, t, ok) ==
  LET m == [metrics EXCEPT ![TimestampField(k)] = t]
      w == write_node_metrics(m, stored, ok)
  IN [metrics |-> m, stored |-> w.stored, result |-> w.result]

\* The leader's timed future completes. An arm of the match that ends the
\* pass (r) leaves its Result in res; the success arm runs the timestamp
\* block and goes on to `next`, or leaves through the `?` of the write.
SyncCompletes(c, outcome, r, t, ok, next) ==
  /\ IF r # "none"
     THEN /\ res' = [res EXCEPT ![c] = r]
          /\ pc' = [pc EXCEPT ![c] = "propagate"]
          /\ sync_res' = [sync_res EXCEPT ![c] = outcome]
          /\ UNCHANGED <<kind, leader, ts_before, incremental_sync, request,
                         recorded, node_metrics, kv_node_metrics>>
     ELSE LET w == record_sync_timestamp(
                     node_metrics, kv_node_metrics, kind[c], t, ok)
          IN /\ node_metrics' = w.metrics
             /\ kv_node_metrics' = w.stored
             /\ IF w.result = "Ok"
                THEN /\ recorded' = [recorded EXCEPT ![c] = TRUE]
                     /\ sync_res' = [sync_res EXCEPT ![c] = outcome]
                     /\ res' = [res EXCEPT ![c] =
                                  IF next = "propagate" THEN "Ok" ELSE @]
                     /\ pc' = [pc EXCEPT ![c] = next]
                     /\ UNCHANGED <<kind, leader, ts_before, incremental_sync,
                                    request>>
                ELSE EarlyReturn(c, w.result)
  /\ UNCHANGED <<status, receivers, inbox, housekeeping>>

\* esplora_client.full_scan / sync under its timeout completes; on an update
\* the wallet applies it and the on-chain timestamp is recorded.
OnchainScanCompletes(c) ==
  /\ pc[c] = "provider"
  /\ UNCHANGED <<feeVars, schedVars, walletVars, envVars, queueVars,
                 storeVars,
                 apiVars, lockVars>>
  /\ kind[c] = "onchain"
  /\ \E outcome \in OnchainOutcomes, apply_ok \in BOOLEAN :
       /\ provider_silent => outcome = "timeout"
       /\ outcome = "ok" \/ apply_ok
       /\ LET r == get_and_apply_wallet_update(outcome, apply_ok)
          IN \E t \in UnixTimeSecsOpts, ok \in BOOLEAN :
               /\ r = "none" \/ (t = None /\ ok)
               /\ SyncCompletes(c, onchain_sync_res(outcome, apply_ok), r, t,
                                ok, "propagate")
  /\ UNCHANGED <<best_height, confirmable_height>>

\* ---------------------------------------------------- sync_lightning_wallet
LightningOutcomes == {"ok", "failed", "timeout"}

\* A match whose timeout arm falls through to the success arm.
lightning_sync_result_timeout_as_ok(outcome) ==
  CASE outcome = "failed" -> "TxSyncFailed"
    [] OTHER -> "none"

\* The match on the timed tx_sync future: the Result of the arms that end the
\* pass, "none" for the arm that goes on to the timestamp block.
lightning_sync_result(outcome) ==
  CASE outcome = "timeout" -> "TxSyncTimeout"
    [] outcome = "failed" -> "TxSyncFailed"
    [] OTHER -> "none"

\* tx_sync.sync under its timeout completes; a successful sync has told the
\* Confirmables of its batch the chain tip, so the channel manager's best
\* block is the one it reported, and the Lightning timestamp is recorded.
LightningSyncCompletes(c) ==
  /\ pc[c] = "provider"
  /\ UNCHANGED <<feeVars, schedVars, walletVars, envVars, queueVars,
                 storeVars,
                 apiVars, lockVars>>
  /\ kind[c] = "lightning"
  /\ \E outcome \in LightningOutcomes, h \in Heights :
       /\ provider_silent => outcome = "timeout"
       /\ outcome = "ok" \/ h = best_height
       /\ LET heights ==
                IF outcome = "ok"
                THEN tx_sync_sync(
                       sync_confirmables,
                       best_block_heights(best_height, confirmable_height), h)
                ELSE best_block_heights(best_height, confirmable_height)
          IN /\ best_height' = heights["channel_manager"]
             /\ confirmable_height' = [cf \in OtherConfirmables |-> heights[cf]]
       /\ LET r == lightning_sync_result(outcome)
          IN \E t \in UnixTimeSecsOpts, ok \in BOOLEAN :
               /\ r = "none" \/ (t = None /\ ok)
               /\ SyncCompletes(c, outcome, r, t, ok, "housekeeping")

\* ------------------------------ periodically_archive_fully_resolved_monitors
\* A threshold with map_or(false, ..): never due while no height is recorded.
should_archive_none_not_due(latest, cur_height) ==
  IF latest = None THEN FALSE
  ELSE cur_height >= latest[1] + RESOLVED_CHANNEL_MONITOR_ARCHIVAL_INTERVAL

\* A threshold that is strict: due only after more than the interval.
should_archive_strict(latest, cur_height) ==
  IF latest = None THEN TRUE
  ELSE cur_height > latest[1] + RESOLVED_CHANNEL_MONITOR_ARCHIVAL_INTERVAL

\* let should_archive = latest.map_or(true, |h| cur_height >= h + INTERVAL)
\* (block heights are far below 2^32, the u32 sum does not overflow).
should_archive(latest, cur_height) ==
  IF latest = None THEN TRUE
  ELSE cur_height >= latest[1] + RESOLVED_CHANNEL_MONITOR_ARCHIVAL_INTERVAL

\* Under the NodeMetrics write lock: archive when due, assign the new height
\* in memory, write the record.
periodically_archive_fully_resolved_monitors(metrics, stored, cur_height, ok) ==
  IF should_archive(metrics.latest_channel_monitor_archival_height, cur_height)
  THEN LET m == [metrics EXCEPT
                   !.latest_channel_monitor_archival_height = Some(cur_height)]
           w == write_node_metrics(m, stored, ok)
       IN [archived |-> TRUE, metrics |-> m, stored |-> w.stored,
           result |-> w.result]
  ELSE [archived |-> FALSE, metrics |-> metrics, stored |-> stored,
        result |-> "Ok"]

Housekeeping(c) ==
  /\ pc[c] = "housekeeping"
  /\ UNCHANGED <<feeVars, schedVars, walletVars, envVars, queueVars,
                 storeVars,
                 apiVars, lockVars>>
  /\ \E ok \in BOOLEAN :
     LET latest == node_metrics.latest_channel_monitor_archival_height
         r == periodically_archive_fully_resolved_monitors(
                node_metrics, kv_node_metrics, best_height, ok)
     IN /\ ok \/ r.archived
        /\ node_metrics' = r.metrics
        /\ kv_node_metrics' = r.stored
        /\ housekeeping' =
             [housekeeping EXCEPT ![c] =
                [ran |-> TRUE, latest |-> latest, cur_height |-> best_height,
                 archived |-> r.archived]]
        /\ IF r.result = "Ok"
           THEN /\ res' = [res EXCEPT ![c] = "Ok"]
                /\ pc' = [pc EXCEPT ![c] = "propagate"]
                /\ UNCHANGED <<kind, leader, ts_before, incremental_sync,
                               request, sync_res, recorded>>
           ELSE EarlyReturn(c, r.result)
  /\ UNCHANGED <<status, receivers, inbox, best_height, confirmable_height>>

\* ------------------------------------------------ update_fee_rate_estimates
\* get_all_conf_targets(): the confirmation targets the cache tracks.
ConfirmationTargets ==
  {"OnchainPayment", "ChannelFunding", "MinAllowedAnchorChannelRemoteFee"}

get_num_block_defaults_for_target(target) ==
  CASE target = "OnchainPayment" -> 6
    [] target = "ChannelFunding" -> 12
    [] OTHER -> 1008

\* The fixed per-target correction: the minimum-allowed targets are lowered
\* by 250 sat/kwu (saturating), the others are kept.
apply_post_estimation_adjustments(target, fee_rate) ==
  IF target = "MinAllowedAnchorChannelRemoteFee"
  THEN IF fee_rate >= 250 THEN fee_rate - 250 ELSE 0
  ELSE fee_rate

\* What esplora_client.get_fee_estimates() can answer: a map from a number of
\* blocks to a fee rate in sat/vB, possibly empty.
EstimateBlocks == {1, 144}
EstimateRates == {1, 4}
FeeEstimateMaps ==
  UNION {[b -> EstimateRates] : b \in SUBSET EstimateBlocks}

FeeOutcomes == {"ok", "error", "timeout"}

\* A conversion that has no default: it fails when no estimate is at or
\* below the target.
convert_fee_rate_no_default(target, est) ==
  LET below == {b \in DOMAIN est : b <= target}
  IN IF below = {} THEN [ok |-> FALSE, rate |-> 0]
     ELSE [ok |-> TRUE,
           rate |-> est[CHOOSE b \in below : \A o \in below : o <= b]]

\* esplora_client::convert_fee_rate: the estimate of the largest number of
\* blocks at or below the target, 1 sat/vB when there is none; it never
\* returns an error.
convert_fee_rate(target, est) ==
  LET below == {b \in DOMAIN est : b <= target}
  IN IF below = {} THEN [ok |-> TRUE, rate |-> 1]
     ELSE [ok |-> TRUE,
           rate |-> est[CHOOSE b \in below : \A o \in below : o <= b]]

\* A check that lets empty estimates pass on every network.
empty_estimates_allowed(est, net) == FALSE

\* if estimates.is_empty() && config.network == Network::Bitcoin
empty_estimates_disallowed(est, net) ==
  DOMAIN est = {} /\ net = "Bitcoin"

\* The loop over the confirmation targets: FeeRate::from_sat_per_kwu of the
\* converted estimate times 250, after the per-target adjustment.
new_fee_rate_cache(est) ==
  [target \in ConfirmationTargets |->
     apply_post_estimation_adjustments(
       target,
       convert_fee_rate(get_num_block_defaults_for_target(target), est).rate
         * 250)]

\* The function from the answer of the provider on: the early returns, the
\* replacement of the cache, then the metrics block (assign, write, `?`).
update_fee_rate_estimates(outcome, est, net, cache, metrics, stored, t, ok) ==
  LET unchanged(e) ==
        [result |-> e, cache |-> cache, metrics |-> metrics,
         stored |-> stored]
  IN CASE outcome = "timeout" -> unchanged("FeerateEstimationUpdateTimeout")
       [] outcome = "error" -> unchanged("FeerateEstimationUpdateFailed")
       [] empty_estimates_disallowed(est, net) ->
            unchanged("FeerateEstimationUpdateFailed")
       [] \E target \in ConfirmationTargets :
            ~convert_fee_rate(
               get_num_block_defaults_for_target(target), est).ok ->
            unchanged("FeerateEstimationUpdateFailed")
       [] OTHER ->
            LET m == [metrics EXCEPT
                        !.latest_fee_rate_cache_update_timestamp = t]
                w == write_node_metrics(m, stored, ok)
            IN [result |-> w.result, cache |-> new_fee_rate_cache(est),
                metrics |-> m, stored |-> w.stored]

\* update_fee_rate_estimates is called and awaits the timed
\* esplora_client.get_fee_estimates().
FeeUpdateStart ==
  /\ fee_pc = "idle"
  /\ fee_pc' = "get_fee_estimates"
  /\ UNCHANGED <<network, fee_rate_cache, estimates, unix_time_secs_opt,
                 fee_res>>
  /\ UNCHANGED <<syncVars, metricsVars, schedVars, walletVars, envVars, queueVars,
                 storeVars,
                 apiVars, lockVars>>

\* The timed future completes and the function runs to its return.
FeeEstimatesComplete ==
  /\ fee_pc = "get_fee_estimates"
  /\ \E outcome \in FeeOutcomes, est \in FeeEstimateMaps :
       /\ provider_silent => outcome = "timeout"
       /\ outcome = "ok" \/ est = <<>>
       /\ \E t \in UnixTimeSecsOpts, ok \in BOOLEAN :
            LET r == update_fee_rate_estimates(
                       outcome, est, network, fee_rate_cache, node_metrics,
                       kv_node_metrics, t, ok)
                block == r.result \in {"Ok", "PersistenceFailed"}
            IN /\ block \/ (t = None /\ ok)
               /\ fee_rate_cache' = r.cache
               /\ node_metrics' = r.metrics
               /\ kv_node_metrics' = r.stored
               /\ fee_res' = r.result
               /\ estimates' = IF outcome = "ok" THEN Some(est) ELSE None
               /\ unix_time_secs_opt' = IF block THEN t ELSE None
  /\ fee_pc' = "done"
  /\ UNCHANGED network
  /\ UNCHANGED <<syncVars, schedVars, walletVars, envVars, queueVars,
                 storeVars,
                 apiVars, lockVars>>

\* The caller has its Result; the locals go away.
FeeUpdateReturn ==
  /\ fee_pc = "done"
  /\ fee_pc' = "idle"
  /\ estimates' = None
  /\ unix_time_secs_opt' = None
  /\ fee_res' = "none"
  /\ UNCHANGED <<network, fee_rate_cache>>
  /\ UNCHANGED <<syncVars, metricsVars, schedVars, walletVars, envVars, queueVars,
                 storeVars,
                 apiVars, lockVars>>

FeeNext ==
  \/ FeeUpdateStart
  \/ FeeEstimatesComplete
  \/ FeeUpdateReturn

FeeSpecInit ==
  /\ SyncInit
  /\ FeeInit
  /\ NotStarted
  /\ WalletInit
  /\ provider_silent = FALSE
  /\ BroadcastInit
  /\ PaymentStoreInit
  /\ ApiInit
  /\ NoTasks
  /\ debug_assertions = FALSE

\* update_fee_rate_estimates alone, on every network.
FeeSpec == FeeSpecInit /\ [][FeeNext]_vars

\* ------------------------------------------------------ background loops
\* The loop of ChainSource::continuously_sync_wallets serves the three timers;
\* each of the three loops of Node::start serves the timer it is named after.
SyncLoop == "continuously_sync_wallets"

Serves(l) == IF l = SyncLoop THEN TimerKinds ELSE {l}

\* An interval that delivers every missed tick later, one after the other.
MissedTickBehavior_Burst(ready) == ready + 1

\* MissedTickBehavior::Skip: a period that ends while a tick is still
\* undelivered adds no second tick; the interval delivers the late tick once
\* and goes on at the next multiple of the period.
MissedTickBehavior_Skip(ready) == IF ready = 0 THEN 1 ELSE ready

\* tokio::time::interval: the first tick completes immediately; reset() on
\* the fee interval makes its first tick complete one period from now.
IntervalsCreated ==
  [k \in TimerKinds |-> IF k = "fee" THEN 0 ELSE 1]

\* The loops run; nothing has been dispatched.
LoopsStarted(loops) ==
  /\ ticks_ready = IntervalsCreated
  /\ stop_sent = FALSE
  /\ loop_pc = [l \in loops |-> "select"]
  /\ in_flight = [k \in TimerKinds |-> 0]
  /\ engine_result = [k \in TimerKinds |-> "none"]
  /\ runtime = "running"

\* The interval of timer k lives as long as a loop that serves it runs.
IntervalLive(k) ==
  \E l \in DOMAIN loop_pc :
    k \in Serves(l) /\ loop_pc[l] \in {"select", "await"}

\* A period of the interval of timer k ends.
IntervalElapses(k) ==
  /\ IntervalLive(k)
  /\ ticks_ready' =
       [ticks_ready EXCEPT ![k] = MissedTickBehavior_Skip(@)]
  /\ UNCHANGED <<stop_sent, loop_pc, in_flight, engine_result, runtime>>
  /\ UNCHANGED <<syncVars, metricsVars, feeVars, walletVars, envVars, queueVars,
                 storeVars,
                 apiVars, lockVars>>

\* select! can take the branch of timer k: the loop is at its select! and the
\* interval has a tick to deliver. Being unbiased, select! takes any ready
\* branch, whether or not stop_sync_receiver.changed() is ready too.
CanSelectTick(l, k) ==
  /\ l \in DOMAIN loop_pc
  /\ k \in Serves(l)
  /\ loop_pc[l] = "select"
  /\ ticks_ready[k] >= 1

\* select! takes the branch of timer k: the tick is delivered and the handler
\* awaits the engine call inside the loop's task.
TickDelivered(l, k) ==
  /\ CanSelectTick(l, k)
  /\ ticks_ready' = [ticks_ready EXCEPT ![k] = @ - 1]
  /\ in_flight' = [in_flight EXCEPT ![k] = @ + 1]
  /\ loop_pc' = [loop_pc EXCEPT ![l] = "await"]
  /\ UNCHANGED <<stop_sent, engine_result, runtime>>

\* The same, for an engine call whose inside is not looked at.
TickSelected(l, k) ==
  /\ TickDelivered(l, k)
  /\ UNCHANGED <<syncVars, metricsVars, feeVars, walletVars, envVars, queueVars,
                 storeVars,
                 apiVars, lockVars>>

EngineResults == {"Ok", "Err"}

\* The awaited engine call returns; its Result is dropped (`let _ =`, or only
\* logged) and the loop goes back to its select!.
EngineCallReturned(l, k, r) ==
  /\ l \in DOMAIN loop_pc
  /\ k \in Serves(l)
  /\ loop_pc[l] = "await"
  /\ in_flight[k] >= 1
  /\ engine_result' = [engine_result EXCEPT ![k] = r]
  /\ in_flight' = [in_flight EXCEPT ![k] = @ - 1]
  /\ loop_pc' = [loop_pc EXCEPT ![l] = "select"]
  /\ UNCHANGED <<ticks_ready, stop_sent, runtime>>

\* The same, for an engine call whose inside is not looked at: it returns
\* any Result.
EngineCallReturns(l, k) ==
  /\ \E r \in EngineResults : EngineCallReturned(l, k, r)
  /\ UNCHANGED <<syncVars, metricsVars, feeVars, walletVars, envVars, queueVars,
                 storeVars,
                 apiVars, lockVars>>

\* select! takes the branch of the stop receiver: the loop returns and its
\* intervals are dropped.
StopSelected(l) ==
  /\ l \in DOMAIN loop_pc
  /\ loop_pc[l] = "select"
  /\ stop_sent
  /\ loop_pc' = [loop_pc EXCEPT ![l] = "returned"]
  /\ ticks_ready' =
       [k \in TimerKinds |-> IF k \in Serves(l) THEN 0 ELSE ticks_ready[k]]
  /\ UNCHANGED <<stop_sent, in_flight, engine_result, runtime>>
  /\ UNCHANGED <<syncVars, metricsVars, feeVars, walletVars, envVars, queueVars,
                 storeVars,
                 apiVars, lockVars>>

\* Node::stop sends the shutdown signal.
SendStop ==
  /\ runtime = "running"
  /\ ~stop_sent
  /\ stop_sent' = TRUE
  /\ UNCHANGED <<ticks_ready, loop_pc, in_flight, engine_result, runtime>>
  /\ UNCHANGED <<syncVars, metricsVars, feeVars, walletVars, envVars, queueVars,
                 storeVars,
                 apiVars, lockVars>>

\* The loops of Node::start spawned on the node's runtime; the on-chain loop
\* runs on a thread and a runtime of its own.
SpawnedOnRuntime == {"fee", "lightning"}

\* Node::stop goes on to runtime.shutdown_timeout: every task spawned on the
\* runtime that has not finished is dropped where it is suspended, at its
\* select! or at the await of its engine call, and the call with it.
RuntimeShutdown ==
  /\ runtime = "running"
  /\ stop_sent
  /\ runtime' = "shutdown"
  /\ LET dropped ==
           {l \in DOMAIN loop_pc \cap SpawnedOnRuntime :
              loop_pc[l] \in {"select", "await"}}
     IN /\ loop_pc' =
             [l \in DOMAIN loop_pc |->
                IF l \in dropped THEN "dropped" ELSE loop_pc[l]]
        /\ in_flight' =
             [k \in TimerKinds |-> IF k \in dropped THEN 0 ELSE in_flight[k]]
        /\ ticks_ready' =
             [k \in TimerKinds |-> IF k \in dropped THEN 0 ELSE ticks_ready[k]]
  /\ UNCHANGED <<stop_sent, engine_result>>
  /\ UNCHANGED <<syncVars, metricsVars, feeVars, walletVars, envVars, queueVars,
                 storeVars,
                 apiVars, lockVars>>

\* continuously_sync_wallets: one loop for the three timers.
SchedInit ==
  /\ SyncInit
  /\ FeeInit /\ network = "Bitcoin"
  /\ LoopsStarted({SyncLoop})
  /\ WalletInit
  /\ provider_silent = FALSE
  /\ BroadcastInit
  /\ PaymentStoreInit
  /\ ApiInit
  /\ NoTasks
  /\ debug_assertions = FALSE

SchedNext ==
  \/ \E k \in TimerKinds : IntervalElapses(k)
  \/ \E k \in TimerKinds : TickSelected(SyncLoop, k)
  \/ \E k \in TimerKinds : EngineCallReturns(SyncLoop, k)
  \/ StopSelected(SyncLoop)
  \/ SendStop

SchedSpec == SchedInit /\ [][SchedNext]_vars

\* Node::start and Node::stop of lib.rs: one loop per timer.
NodeInit ==
  /\ SyncInit
  /\ FeeInit /\ network = "Bitcoin"
  /\ LoopsStarted(TimerKinds)
  /\ WalletInit
  /\ provider_silent = FALSE
  /\ BroadcastInit
  /\ PaymentStoreInit
  /\ ApiInit
  /\ NoTasks
  /\ debug_assertions = FALSE

NodeNext ==
  \/ \E k \in TimerKinds : IntervalElapses(k)
  \/ \E k \in TimerKinds : TickSelected(k, k)
  \/ \E k \in TimerKinds : EngineCallReturns(k, k)
  \/ \E k \in TimerKinds : StopSelected(k)
  \/ SendStop
  \/ RuntimeShutdown

NodeSpec == NodeInit /\ [][NodeNext]_vars

\* ----------------------------------------------- the run state of the Node
\* Node::status().is_running: self.runtime holds a runtime.
is_running == runtime = "running"

\* The API methods that use the runtime.
ApiMethods ==
  {"send_to_onchain_address", "connect", "disconnect", "connect_open_channel",
   "sync_wallets", "send_payment", "receive_payment_via_jit_channel"}

\* What a method answers on a running node, as far as the run state goes.
ApiOutcomes == {"Ok", "Err"}

\* The head of a method that uses the runtime. sync_wallets, connect,
\* send_payment and their like return NotRunning when rt_lock.is_none();
\* receive_payment_via_jit_channel_inner first asks for the liquidity source
\* and then unwraps the runtime.
api_result(method, running, has_liquidity_source, outcome) ==
  IF method = "receive_payment_via_jit_channel"
  THEN IF ~has_liquidity_source THEN "LiquiditySourceUnavailable"
       ELSE IF ~running THEN "panic"
       ELSE outcome
  ELSE IF ~running THEN "NotRunning" ELSE outcome

\* Node::start. On a running node it returns AlreadyRunning at once. Else it
\* updates the fee rate cache, whose error it returns; spawns the on-chain
\* loop on a thread of its own and the other loops on the new runtime;
\* resolves the listening addresses, whose error it returns, dropping the
\* runtime and the tasks spawned on it; and stores the runtime. A new
\* subscriber of the stop signal has seen every signal sent before.
NodeStart ==
  /\ api_call' = NextCall("start")
  /\ IF is_running
     THEN /\ api_ret' = "AlreadyRunning"
          /\ UNCHANGED <<schedVars, last_ok>>
     ELSE \E fee_ok, addresses_ok \in BOOLEAN :
            IF ~fee_ok
            THEN /\ api_ret' = "FeerateEstimationUpdateFailed"
                 /\ UNCHANGED <<schedVars, last_ok>>
            ELSE /\ ticks_ready' = IntervalsCreated
                 /\ stop_sent' = FALSE
                 /\ in_flight' = [k \in TimerKinds |-> 0]
                 /\ engine_result' = [k \in TimerKinds |-> "none"]
                 /\ IF addresses_ok
                    THEN /\ loop_pc' = [l \in TimerKinds |-> "select"]
                         /\ runtime' = "running"
                         /\ api_ret' = "Ok"
                         /\ last_ok' = "start"
                    ELSE /\ loop_pc' =
                              [l \in TimerKinds |->
                                 IF l \in SpawnedOnRuntime
                                 THEN "dropped" ELSE "select"]
                         /\ api_ret' = "InvalidSocketAddress"
                         /\ UNCHANGED <<runtime, last_ok>>
  /\ UNCHANGED liquidity_source
  /\ UNCHANGED <<syncVars, metricsVars, feeVars, walletVars, envVars, queueVars,
                 storeVars, lockVars>>

\* Node::stop takes the runtime out of self.runtime, or returns NotRunning;
\* it sends the stop signal and shuts the runtime down, which drops the
\* loops spawned on it.
NodeStop ==
  /\ api_call' = NextCall("stop")
  /\ IF ~is_running
     THEN /\ api_ret' = "NotRunning"
          /\ UNCHANGED <<schedVars, last_ok>>
     ELSE /\ runtime' = "shutdown"
          /\ stop_sent' = TRUE
          /\ loop_pc' =
               [l \in DOMAIN loop_pc |->
                  IF l \in SpawnedOnRuntime /\ loop_pc[l] \in {"select", "await"}
                  THEN "dropped" ELSE loop_pc[l]]
          /\ ticks_ready' =
               [k \in TimerKinds |->
                  IF k \in SpawnedOnRuntime THEN 0 ELSE ticks_ready[k]]
          /\ in_flight' =
               [k \in TimerKinds |->
                  IF k \in SpawnedOnRuntime THEN 0 ELSE in_flight[k]]
          /\ api_ret' = "Ok"
          /\ last_ok' = "stop"
          /\ UNCHANGED engine_result
  /\ UNCHANGED liquidity_source
  /\ UNCHANGED <<syncVars, metricsVars, feeVars, walletVars, envVars, queueVars,
                 storeVars, lockVars>>

\* A method that uses the runtime is called.
NodeApiCall(method) ==
  /\ api_call' = NextCall(method)
  /\ \E outcome \in ApiOutcomes :
       api_ret' = api_result(method, is_running, liquidity_source, outcome)
  /\ UNCHANGED <<last_ok, liquidity_source>>
  /\ UNCHANGED <<syncVars, metricsVars, feeVars, schedVars, walletVars,
                 envVars, queueVars, storeVars, lockVars>>

\* A node that was built, with or without a liquidity source, and not yet
\* started.
NodeApiInit ==
  /\ SyncInit
  /\ FeeInit /\ network = "Bitcoin"
  /\ NotStarted
  /\ WalletInit
  /\ provider_silent = FALSE
  /\ BroadcastInit
  /\ PaymentStoreInit
  /\ api_call = [method |-> "none", turn |-> 0]
  /\ api_ret = "none"
  /\ last_ok = "none"
  /\ liquidity_source \in BOOLEAN
  /\ NoTasks
  /\ debug_assertions = FALSE

NodeApiNext ==
  \/ NodeStart
  \/ NodeStop
  \/ \E method \in ApiMethods : NodeApiCall(method)
  \/ StopSelected("onchain")

\* Calls of start, stop and the methods that use the runtime, in any order;
\* of the loops only the on-chain thread's return on the stop signal is
\* looked at.
NodeApiSpec == NodeApiInit /\ [][NodeApiNext]_vars

\* ------------------------------------------- Wallet::sync of wallet.rs
\* What bdk's wallet sync against the Esplora blockchain can answer.
WalletSyncOutcomes == {"ok", "reqwest_error", "esplora_error", "other_error"}

\* The arm bdk::Error::Esplora(EsploraError::Reqwest(_)): sleep one second and
\* sync again.
sync_retries(outcome) == outcome = "reqwest_error"

\* Err(From::from(e)): the wallet error as the node's error.
wallet_sync_result(outcome) ==
  IF outcome = "ok" THEN "Ok" ELSE "WalletOperationFailed"

\* sync is entered: lock.try_lock() gives the guard and the caller goes on
\* to lock the wallet, or it fails and the caller blocks in lock.lock().
WalletTryLock(c) ==
  /\ wallet_pc[c] = "idle"
  /\ UNCHANGED woken_by
  /\ IF sync_lock = None
     THEN /\ sync_lock' = Some(c)
          /\ wallet_pc' = [wallet_pc EXCEPT ![c] = "lock_inner"]
     ELSE /\ wallet_pc' = [wallet_pc EXCEPT ![c] = "lock"]
          /\ UNCHANGED sync_lock
  /\ UNCHANGED <<inner_lock, scan_requests, wallet_res>>
  /\ UNCHANGED <<syncVars, metricsVars, feeVars, schedVars, envVars, queueVars,
                 storeVars,
                 apiVars, lockVars>>

\* self.inner.lock().unwrap() returns the wallet guard, and the first
\* wallet_lock.sync(&self.blockchain, ..) is requested and awaited with both
\* guards held.
WalletLockInner(c) ==
  /\ wallet_pc[c] = "lock_inner"
  /\ UNCHANGED woken_by
  /\ inner_lock = None
  /\ inner_lock' = Some(c)
  /\ wallet_pc' = [wallet_pc EXCEPT ![c] = "sync"]
  /\ scan_requests' = [scan_requests EXCEPT ![c] = @ + 1]
  /\ UNCHANGED <<sync_lock, wallet_res>>
  /\ UNCHANGED <<syncVars, metricsVars, feeVars, schedVars, envVars, queueVars,
                 storeVars,
                 apiVars, lockVars>>

\* The first wallet_lock.sync(..).await returns; on an HTTP connection error
\* the caller sleeps and requests a second sync.
WalletSyncCompletes(c) ==
  /\ wallet_pc[c] = "sync"
  /\ UNCHANGED woken_by
  /\ ~provider_silent
  /\ \E outcome \in WalletSyncOutcomes :
       IF sync_retries(outcome)
       THEN /\ wallet_pc' = [wallet_pc EXCEPT ![c] = "retry"]
            /\ scan_requests' = [scan_requests EXCEPT ![c] = @ + 1]
            /\ UNCHANGED wallet_res
       ELSE /\ wallet_pc' = [wallet_pc EXCEPT ![c] = "drop_guard"]
            /\ wallet_res' =
                 [wallet_res EXCEPT ![c] = wallet_sync_result(outcome)]
            /\ UNCHANGED scan_requests
  /\ UNCHANGED <<sync_lock, inner_lock>>
  /\ UNCHANGED <<syncVars, metricsVars, feeVars, schedVars, envVars, queueVars,
                 storeVars,
                 apiVars, lockVars>>

\* The second wallet_lock.sync(..).await returns; its error is mapped.
WalletRetryCompletes(c) ==
  /\ wallet_pc[c] = "retry"
  /\ UNCHANGED woken_by
  /\ ~provider_silent
  /\ \E outcome \in WalletSyncOutcomes :
       wallet_res' = [wallet_res EXCEPT ![c] = wallet_sync_result(outcome)]
  /\ wallet_pc' = [wallet_pc EXCEPT ![c] = "drop_guard"]
  /\ UNCHANGED <<sync_lock, inner_lock, scan_requests>>
  /\ UNCHANGED <<syncVars, metricsVars, feeVars, schedVars, envVars, queueVars,
                 storeVars,
                 apiVars, lockVars>>

\* drop(guard)
WalletDropGuard(c) ==
  /\ wallet_pc[c] = "drop_guard"
  /\ UNCHANGED woken_by
  /\ sync_lock' = None
  /\ wallet_pc' = [wallet_pc EXCEPT ![c] = "notify"]
  /\ UNCHANGED <<inner_lock, scan_requests, wallet_res>>
  /\ UNCHANGED <<syncVars, metricsVars, feeVars, schedVars, envVars, queueVars,
                 storeVars,
                 apiVars, lockVars>>

\* cvar.notify_all() wakes every caller waiting on the condition variable;
\* then the function returns its result, and the wallet guard of a caller
\* that synced is dropped with its locals. woken_by remembers for a woken
\* waiter the Result of the sync that ended: the notifier's own, or the one
\* the notifier had waited for.
WalletNotifyAll(c) ==
  /\ wallet_pc[c] = "notify"
  /\ wallet_pc' =
       [w \in Callers |->
          IF w = c THEN "done"
          ELSE IF wallet_pc[w] = "wait" THEN "woken"
          ELSE wallet_pc[w]]
  /\ woken_by' =
       [w \in Callers |->
          IF w # c /\ wallet_pc[w] = "wait"
          THEN IF woken_by[c] # "none" THEN woken_by[c] ELSE wallet_res[c]
          ELSE woken_by[w]]
  /\ inner_lock' = IF inner_lock = Some(c) THEN None ELSE inner_lock
  /\ UNCHANGED <<sync_lock, scan_requests, wallet_res>>
  /\ UNCHANGED <<syncVars, metricsVars, feeVars, schedVars, envVars, queueVars,
                 storeVars,
                 apiVars, lockVars>>

\* lock.lock() of a caller whose try_lock failed returns the guard.
WalletWaiterLocks(c) ==
  /\ wallet_pc[c] = "lock"
  /\ UNCHANGED woken_by
  /\ sync_lock = None
  /\ sync_lock' = Some(c)
  /\ wallet_pc' = [wallet_pc EXCEPT ![c] = "locked"]
  /\ UNCHANGED <<inner_lock, scan_requests, wallet_res>>
  /\ UNCHANGED <<syncVars, metricsVars, feeVars, schedVars, envVars, queueVars,
                 storeVars,
                 apiVars, lockVars>>

\* cvar.wait(guard) releases the mutex and blocks on the condition variable.
WalletWaiterWaits(c) ==
  /\ wallet_pc[c] = "locked"
  /\ UNCHANGED woken_by
  /\ sync_lock' = None
  /\ wallet_pc' = [wallet_pc EXCEPT ![c] = "wait"]
  /\ UNCHANGED <<inner_lock, scan_requests, wallet_res>>
  /\ UNCHANGED <<syncVars, metricsVars, feeVars, schedVars, envVars, queueVars,
                 storeVars,
                 apiVars, lockVars>>

\* A woken waiter gets the mutex back from cvar.wait; it goes on to drop the
\* guard, notify_all and return Ok(()).
WalletWaiterWoken(c) ==
  /\ wallet_pc[c] = "woken"
  /\ UNCHANGED woken_by
  /\ sync_lock = None
  /\ sync_lock' = Some(c)
  /\ wallet_pc' = [wallet_pc EXCEPT ![c] = "drop_guard"]
  /\ wallet_res' = [wallet_res EXCEPT ![c] = "Ok"]
  /\ UNCHANGED <<inner_lock, scan_requests>>
  /\ UNCHANGED <<syncVars, metricsVars, feeVars, schedVars, envVars, queueVars,
                 storeVars,
                 apiVars, lockVars>>

\* The caller has its Result; the invocation is over.
WalletReturn(c) ==
  /\ wallet_pc[c] = "done"
  /\ wallet_pc' = [wallet_pc EXCEPT ![c] = "idle"]
  /\ scan_requests' = [scan_requests EXCEPT ![c] = 0]
  /\ wallet_res' = [wallet_res EXCEPT ![c] = "none"]
  /\ woken_by' = [woken_by EXCEPT ![c] = "none"]
  /\ UNCHANGED <<sync_lock, inner_lock>>
  /\ UNCHANGED <<syncVars, metricsVars, feeVars, schedVars, envVars, queueVars,
                 storeVars,
                 apiVars, lockVars>>

WalletNext ==
  \/ \E c \in Callers : WalletTryLock(c)
  \/ \E c \in Callers : WalletLockInner(c)
  \/ \E c \in Callers : WalletSyncCompletes(c)
  \/ \E c \in Callers : WalletRetryCompletes(c)
  \/ \E c \in Callers : WalletDropGuard(c)
  \/ \E c \in Callers : WalletNotifyAll(c)
  \/ \E c \in Callers : WalletWaiterLocks(c)
  \/ \E c \in Callers : WalletWaiterWaits(c)
  \/ \E c \in Callers : WalletWaiterWoken(c)
  \/ \E c \in Callers : WalletReturn(c)

WalletSpecInit ==
  /\ SyncInit
  /\ FeeInit /\ network = "Bitcoin"
  /\ NotStarted
  /\ WalletInit
  /\ provider_silent = FALSE
  /\ BroadcastInit
  /\ PaymentStoreInit
  /\ ApiInit
  /\ NoTasks
  /\ debug_assertions = FALSE

\* Wallet::sync of wallet.rs, called by a few concurrent callers.
WalletSpec == WalletSpecInit /\ [][WalletNext]_vars

\* ------------------------------------ subscribers that give up, and builds
\* propagate_result_to_subscribers up to its test of receiver_count().
PropagateCountCheck(c) ==
  /\ pc[c] = "propagate"
  /\ LET k == Coordinator(kind[c])
         branch == propagate_count_check(status[k], receivers[k])
     IN IF branch = "send"
        THEN /\ pc' = [pc EXCEPT ![c] = "send"]
             /\ UNCHANGED <<status, receivers, inbox, kind, leader, ts_before,
                            incremental_sync, request, sync_res, recorded,
                            housekeeping>>
        ELSE /\ status' = [status EXCEPT ![k] = "Completed"]
             /\ UNCHANGED <<receivers, inbox>>
             /\ pc' = [pc EXCEPT ![c] = "done"]
             /\ DropLocals(c)
             /\ housekeeping' = [housekeeping EXCEPT ![c] = NoHousekeeping]
  /\ UNCHANGED <<res, node_metrics, kv_node_metrics, best_height,
                 confirmable_height>>
  /\ UNCHANGED <<feeVars, schedVars, walletVars, envVars, queueVars,
                 storeVars,
                 apiVars, lockVars>>

\* subscribers.send(res), then `*self = Completed` unless the send failure
\* panicked: the panic unwinds with the status InProgress and the mutex
\* poisoned.
PropagateSend(c) ==
  /\ pc[c] = "send"
  /\ LET k == Coordinator(kind[c])
         p == propagate_send(receivers[k], debug_assertions)
     IN IF p.panics
        THEN /\ pc' = [pc EXCEPT ![c] = "panicked"]
             /\ UNCHANGED <<status, receivers, inbox, kind, leader, ts_before,
                            incremental_sync, request, sync_res, recorded,
                            housekeeping>>
        ELSE /\ status' = [status EXCEPT ![k] = "Completed"]
             /\ inbox' =
                  [s \in Callers |->
                     IF s \in p.delivered THEN res[c] ELSE inbox[s]]
             /\ receivers' = [receivers EXCEPT ![k] = {}]
             /\ pc' = [pc EXCEPT ![c] = "done"]
             /\ DropLocals(c)
             /\ housekeeping' = [housekeeping EXCEPT ![c] = NoHousekeeping]
  /\ UNCHANGED <<res, node_metrics, kv_node_metrics, best_height,
                 confirmable_height>>
  /\ UNCHANGED <<feeVars, schedVars, walletVars, envVars, queueVars,
                 storeVars,
                 apiVars, lockVars>>

\* The task of a subscriber is dropped while it awaits its receiver (the
\* runtime it was spawned on shuts down): the receiver is dropped with it.
SubscriberDropped(c) ==
  /\ pc[c] = "subscribed"
  /\ receivers' =
       [receivers EXCEPT ![Coordinator(kind[c])] = @ \ {c}]
  /\ inbox' = [inbox EXCEPT ![c] = "none"]
  /\ pc' = [pc EXCEPT ![c] = "idle"]
  /\ DropLocals(c)
  /\ UNCHANGED <<status, res, node_metrics, kv_node_metrics, best_height,
                 confirmable_height,
                 housekeeping>>
  /\ UNCHANGED <<feeVars, schedVars, walletVars, envVars, queueVars,
                 storeVars,
                 apiVars, lockVars>>

\* A caller locks the status mutex that a panic has poisoned:
\* lock().unwrap() panics in turn.
LockPoisoned(c, k) ==
  /\ pc[c] = "idle"
  /\ \E d \in Callers : pc[d] = "panicked" /\ Coordinator(kind[d]) = k
  /\ pc' = [pc EXCEPT ![c] = "panicked"]
  /\ kind' = [kind EXCEPT ![c] = k]
  /\ UNCHANGED <<status, receivers, inbox, leader, incremental_sync, request,
                 sync_res, recorded, ts_before, res, node_metrics,
                 kv_node_metrics, best_height, confirmable_height,
                 housekeeping>>
  /\ UNCHANGED <<feeVars, schedVars, walletVars, envVars, queueVars,
                 storeVars,
                 apiVars, lockVars>>

DropInit ==
  /\ SyncInit
  /\ FeeInit /\ network = "Bitcoin"
  /\ NotStarted
  /\ WalletInit
  /\ provider_silent = FALSE
  /\ BroadcastInit
  /\ PaymentStoreInit
  /\ ApiInit
  /\ NoTasks
  /\ debug_assertions \in BOOLEAN

DropNext ==
  \/ \E c \in Callers : RegisterOrSubscribe(c, "onchain")
  \/ \E c \in Callers : SubscriberRecv(c)
  \/ \E c \in Callers : SubscriberDropped(c)
  \/ \E c \in Callers : OnchainScanCompletes(c)
  \/ \E c \in Callers : PropagateCountCheck(c)
  \/ \E c \in Callers : PropagateSend(c)
  \/ \E c \in Callers : LockPoisoned(c, "onchain")
  \/ \E c \in Callers : Return(c)

\* The on-chain sync with subscribers whose tasks can be dropped, in a build
\* with or without debug assertions.
DropSpec == DropInit /\ [][DropNext]_vars

\* ------------------------------------------- the receive of a subscriber
\* What tokio's Receiver::recv can answer a subscriber: a Result the leader
\* sent, or a RecvError ("closed").
RecvAnswers == Results \cup {"closed"}

\* Every caller is a subscriber of some kind whose recv() is about to answer;
\* the Sender is gone from the status, which is Completed again.
RecvInit ==
  /\ status = [k \in Kinds |-> "Completed"]
  /\ receivers = [k \in Kinds |-> {}]
  /\ inbox \in [Callers -> RecvAnswers]
  /\ pc = [c \in Callers |-> "subscribed"]
  /\ kind \in [Callers -> Kinds]
  /\ leader = [c \in Callers |-> FALSE]
  /\ incremental_sync = [c \in Callers |-> FALSE]
  /\ request = [c \in Callers |-> "none"]
  /\ sync_res = [c \in Callers |-> "none"]
  /\ recorded = [c \in Callers |-> FALSE]
  /\ ts_before = [c \in Callers |-> None]
  /\ res = [c \in Callers |-> "none"]
  /\ node_metrics = DefaultNodeMetrics
  /\ kv_node_metrics = DefaultNodeMetrics
  /\ best_height = 100
  /\ confirmable_height = [cf \in OtherConfirmables |-> best_height]
  /\ housekeeping = [c \in Callers |-> NoHousekeeping]
  /\ FeeInit /\ network = "Bitcoin"
  /\ NotStarted
  /\ WalletInit
  /\ provider_silent = FALSE
  /\ BroadcastInit
  /\ PaymentStoreInit
  /\ ApiInit
  /\ NoTasks
  /\ debug_assertions \in BOOLEAN

RecvNext ==
  \/ \E c \in Callers : SubscriberRecv(c)
  \/ \E c \in Callers : Return(c)

\* The subscriber branch of both sync operations on every answer of recv(),
\* in a build with or without debug assertions.
RecvSpec == RecvInit /\ [][RecvNext]_vars

\* ------------------------------------------------ process_broadcast_queue
\* The queue between the broadcaster and process_broadcast_queue holds at
\* most MaxQueue packages in the model.
MaxQueue == 2

\* The packages (Vec<Transaction>) the broadcaster is handed.
Packages == {<<>>, <<"tx1">>, <<"tx1", "tx2">>, <<"tx2", "tx2">>}

\* What the timed esplora_client.broadcast(tx) can come to: Ok(Ok(())), a
\* Reqwest error with status 400, any other Reqwest error, any other Esplora
\* error, or the timeout.
BroadcastOutcomes == {"ok", "http_400", "http_error", "other_error", "timeout"}

\* A match that reports every failed broadcast as an error.
broadcast_logs_error_on_400(outcome) == outcome # "ok"

\* The arms of the match that call log_error!: the arm of status 400 only
\* traces the transaction bytes.
broadcast_logs_error(outcome) ==
  outcome \in {"http_error", "other_error", "timeout"}

\* What the match logs for one transaction.
broadcast_log_entry(outcome) ==
  [outcome |-> outcome, error |-> broadcast_logs_error(outcome)]

\* A package is sent to the broadcast queue.
BroadcasterSends(package) ==
  /\ Len(broadcast_queue) < MaxQueue
  /\ broadcast_queue' = Append(broadcast_queue, package)
  /\ UNCHANGED <<next_package, tx_index, broadcast_calls, broadcast_log>>
  /\ UNCHANGED <<syncVars, metricsVars, feeVars, schedVars, walletVars,
                 envVars, storeVars,
                 apiVars, lockVars>>

\* receiver.recv().await answers the next package; the for loop issues the
\* timed broadcast of its first transaction and awaits it. An empty package
\* has no iteration: the while loop is back at recv().
ReceivePackage ==
  /\ next_package = None
  /\ broadcast_queue # <<>>
  /\ LET package == Head(broadcast_queue)
     IN /\ next_package' = IF package = <<>> THEN None ELSE Some(package)
        /\ tx_index' = IF package = <<>> THEN 0 ELSE 1
        /\ broadcast_calls' = [i \in 1..Len(package) |-> 0]
        /\ broadcast_log' = [i \in 1..Len(package) |-> None]
  /\ broadcast_queue' = Tail(broadcast_queue)
  /\ UNCHANGED <<syncVars, metricsVars, feeVars, schedVars, walletVars,
                 envVars, storeVars,
                 apiVars, lockVars>>

\* The timed broadcast of the current transaction completes; the match logs
\* and the for loop goes on to the next transaction of the package, or, after
\* the last one, the while loop is back at recv().
BroadcastCompletes ==
  /\ next_package # None
  /\ \E outcome \in BroadcastOutcomes :
       /\ provider_silent => outcome = "timeout"
       /\ broadcast_log' =
            [broadcast_log EXCEPT ![tx_index] = Some(broadcast_log_entry(outcome))]
  /\ broadcast_calls' = [broadcast_calls EXCEPT ![tx_index] = @ + 1]
  /\ IF tx_index < Len(next_package[1])
     THEN /\ tx_index' = tx_index + 1
          /\ UNCHANGED next_package
     ELSE /\ tx_index' = 0
          /\ next_package' = None
  /\ UNCHANGED broadcast_queue
  /\ UNCHANGED <<syncVars, metricsVars, feeVars, schedVars, walletVars,
                 envVars, storeVars,
                 apiVars, lockVars>>

BroadcastNext ==
  \/ \E package \in Packages : BroadcasterSends(package)
  \/ ReceivePackage
  \/ BroadcastCompletes

BroadcastSpec == Init /\ [][BroadcastNext]_vars

\* ------------------------------------------------------------ PaymentStore
\* impl_writeable_tlv_based_enum!: the variant ids the enums are written as.
PaymentDirection_id(variant) == IF variant = "Inbound" THEN 0 ELSE 1

PaymentDirection_of(id) == IF id = 0 THEN "Inbound" ELSE "Outbound"

PaymentStatus_id(variant) ==
  CASE variant = "Pending" -> 0
    [] variant = "Succeeded" -> 2
    [] OTHER -> 4

PaymentStatus_of(id) ==
  CASE id = 0 -> "Pending"
    [] id = 2 -> "Succeeded"
    [] OTHER -> "Failed"

\* impl_writeable_tlv_based!(PaymentDetails, ..): payment.encode() writes the
\* TLV records in the order of their types; the record of type 1, an
\* `option`, is only written for a Some.
encode(payment) ==
  <<[type |-> 0, value |-> payment.hash]>>
  \o (IF payment.maximum_counterparty_skimmed_fee_msat = None
      THEN <<>>
      ELSE <<[type |-> 1,
              value |-> payment.maximum_counterparty_skimmed_fee_msat[1]]>>)
  \o <<[type |-> 2, value |-> payment.preimage],
       [type |-> 4, value |-> payment.secret],
       [type |-> 6, value |-> payment.amount_msat],
       [type |-> 8, value |-> PaymentDirection_id(payment.direction)],
       [type |-> 10, value |-> PaymentStatus_id(payment.status)]>>

\* Readable::read of PaymentDetails: the fields are taken from the records
\* by type; a missing record of type 1 reads as None.
read(data) ==
  LET types == {data[i].type : i \in DOMAIN data}
      field(t) == data[CHOOSE i \in DOMAIN data : data[i].type = t].value
  IN [hash |-> field(0),
      preimage |-> field(2),
      secret |-> field(4),
      amount_msat |-> field(6),
      direction |-> PaymentDirection_of(field(8)),
      status |-> PaymentStatus_of(field(10)),
      maximum_counterparty_skimmed_fee_msat |->
        IF 1 \in types THEN Some(field(1)) ELSE None]

\* persist_info: the encoded payment is written under the key of its hash;
\* a failed write leaves the store as it was.
persist_info(stored, hash, payment, ok) ==
  IF ok
  THEN [stored |-> [stored EXCEPT ![hash] = Some(encode(payment))],
        result |-> "Ok"]
  ELSE [stored |-> stored, result |-> "PersistenceFailed"]

\* PaymentStore::insert: the map entry is replaced, then the payment is
\* persisted; `?` returns the error of the write.
insert(map, stored, payment, ok) ==
  LET hash == payment.hash
      updated == map[hash] # None
      w == persist_info(stored, hash, payment, ok)
  IN [map |-> [map EXCEPT ![hash] = Some(payment)],
      stored |-> w.stored,
      result |-> IF w.result # "Ok" THEN "Err(PersistenceFailed)"
                 ELSE IF updated THEN "Ok(true)" ELSE "Ok(false)"]

\* PaymentStore::remove: kv_store.remove of the key of the hash, and nothing
\* else.
remove(map, stored, hash, ok) ==
  IF ok
  THEN [map |-> map, stored |-> [stored EXCEPT ![hash] = None],
        result |-> "Ok(())"]
  ELSE [map |-> map, stored |-> stored, result |-> "Err(PersistenceFailed)"]

\* PaymentStore::get reads the map.
get(map, hash) == map[hash]

\* PaymentStore::list_filter(|_| true), as Node::list_payments calls it.
list_filter(map) == {map[h][1] : h \in {g \in DOMAIN map : map[g] # None}}

\* PaymentDetailsUpdate::new(hash): no field is set.
PaymentDetailsUpdate_new(hash) ==
  [hash |-> hash, preimage |-> None, secret |-> None, amount_msat |-> None,
   direction |-> None, status |-> None,
   maximum_counterparty_skimmed_fee_msat |-> None]

\* The `if let Some(..)` assignments of PaymentStore::update.
apply_update(payment, u) ==
  [hash |-> payment.hash,
   preimage |-> IF u.preimage # None THEN u.preimage[1] ELSE payment.preimage,
   secret |-> IF u.secret # None THEN u.secret[1] ELSE payment.secret,
   amount_msat |->
     IF u.amount_msat # None THEN u.amount_msat[1] ELSE payment.amount_msat,
   direction |-> payment.direction,
   status |-> IF u.status # None THEN u.status[1] ELSE payment.status,
   maximum_counterparty_skimmed_fee_msat |->
     IF u.maximum_counterparty_skimmed_fee_msat # None
     THEN u.maximum_counterparty_skimmed_fee_msat[1]
     ELSE payment.maximum_counterparty_skimmed_fee_msat]

\* PaymentStore::update: the payment in the map is changed in place, then
\* persisted; `?` returns the error of the write.
update(map, stored, u, ok) ==
  IF map[u.hash] # None
  THEN LET payment == apply_update(map[u.hash][1], u)
           w == persist_info(stored, u.hash, payment, ok)
       IN [map |-> [map EXCEPT ![u.hash] = Some(payment)],
           stored |-> w.stored,
           result |-> IF w.result # "Ok" THEN "Err(PersistenceFailed)"
                      ELSE "Ok(true)"]
  ELSE [map |-> map, stored |-> stored, result |-> "Ok(false)"]

\* The payments the store is handed for a hash: the one of the test, and one
\* received over a JIT channel.
PaymentsFor(hash) ==
  {[hash |-> hash, preimage |-> None, secret |-> None, amount_msat |-> None,
    direction |-> "Inbound", status |-> "Pending",
    maximum_counterparty_skimmed_fee_msat |-> None],
   [hash |-> hash, preimage |-> None, secret |-> Some("s"),
    amount_msat |-> Some(1), direction |-> "Inbound", status |-> "Pending",
    maximum_counterparty_skimmed_fee_msat |-> Some(1)]}

\* The updates the store is handed for a hash: none of the fields set, the
\* status, the direction, or every field but the direction.
UpdatesFor(hash) ==
  {PaymentDetailsUpdate_new(hash),
   [PaymentDetailsUpdate_new(hash) EXCEPT !.status = Some("Succeeded")],
   [PaymentDetailsUpdate_new(hash) EXCEPT !.direction = Some("Outbound")],
   [PaymentDetailsUpdate_new(hash) EXCEPT
      !.preimage = Some(Some("p")), !.secret = Some(None),
      !.amount_msat = Some(Some(2)), !.status = Some("Failed"),
      !.maximum_counterparty_skimmed_fee_msat = Some(None)]}

PaymentInsert(payment) ==
  /\ \E ok \in BOOLEAN :
       LET r == insert(payments, kv_payments, payment, ok)
       IN /\ payments' = r.map
          /\ kv_payments' = r.stored
          /\ payment_ret' = r.result
  /\ payment_call' = [op |-> "insert", hash |-> payment.hash,
                      arg |-> Some(payment)]
  /\ UNCHANGED <<syncVars, metricsVars, feeVars, schedVars, walletVars,
                 envVars, queueVars,
                 apiVars, lockVars>>

PaymentUpdate(u) ==
  /\ \E ok \in BOOLEAN :
       LET r == update(payments, kv_payments, u, ok)
       IN /\ payments' = r.map
          /\ kv_payments' = r.stored
          /\ payment_ret' = r.result
  /\ payment_call' = [op |-> "update", hash |-> u.hash, arg |-> Some(u)]
  /\ UNCHANGED <<syncVars, metricsVars, feeVars, schedVars, walletVars,
                 envVars, queueVars,
                 apiVars, lockVars>>

\* Node::remove_payment.
PaymentRemove(hash) ==
  /\ \E ok \in BOOLEAN :
       LET r == remove(payments, kv_payments, hash, ok)
       IN /\ payments' = r.map
          /\ kv_payments' = r.stored
          /\ payment_ret' = r.result
  /\ payment_call' = [op |-> "remove", hash |-> hash, arg |-> None]
  /\ UNCHANGED <<syncVars, metricsVars, feeVars, schedVars, walletVars,
                 envVars, queueVars,
                 apiVars, lockVars>>

PaymentNext ==
  \/ \E h \in PaymentHashes : \E payment \in PaymentsFor(h) :
       PaymentInsert(payment)
  \/ \E h \in PaymentHashes : \E u \in UpdatesFor(h) : PaymentUpdate(u)
  \/ \E h \in PaymentHashes : PaymentRemove(h)

PaymentSpec == Init /\ [][PaymentNext]_vars

\* ------------------------------------------- a provider that may be silent
\* The chain data provider answers, or it answers no request at all.
SilentInit ==
  /\ SyncInit
  /\ FeeInit /\ network = "Bitcoin"
  /\ NotStarted
  /\ WalletInit
  /\ provider_silent \in BOOLEAN
  /\ BroadcastInit
  /\ PaymentStoreInit
  /\ ApiInit
  /\ NoTasks
  /\ debug_assertions = FALSE

\* Wallet::sync of wallet.rs and update_fee_rate_estimates against such a
\* provider.
SilentSpec == SilentInit /\ [][WalletNext \/ FeeNext]_vars

\* ------------------- continuously_sync_wallets calling the sync operations
\* The task of continuously_sync_wallets is one caller of the two sync
\* operations; the other callers are tasks of their own (Node::sync_wallets).
LoopCaller == 1

\* What the loop sees of a sync Result: `let _ =` drops it.
engine_result_of(r) == IF r = "Ok" THEN "Ok" ELSE "Err"

\* The on-chain or the Lightning branch of select! is taken: the handler
\* calls sync_onchain_wallet / sync_lightning_wallet and awaits it.
LoopDispatches(k) ==
  /\ TickDelivered(SyncLoop, k)
  /\ SyncEntered(LoopCaller, k)
  /\ UNCHANGED <<feeVars, walletVars, envVars, queueVars, storeVars,
                 apiVars, lockVars>>

\* The call the loop awaits returns; the loop is at its select! again.
LoopCallReturns(k) ==
  /\ EngineCallReturned(SyncLoop, k, engine_result_of(res[LoopCaller]))
  /\ SyncReturned(LoopCaller)
  /\ UNCHANGED <<feeVars, walletVars, envVars, queueVars, storeVars,
                 apiVars, lockVars>>

LoopNext ==
  \/ \E k \in Kinds : IntervalElapses(k)
  \/ \E k \in Kinds : LoopDispatches(k)
  \/ \E k \in Kinds : LoopCallReturns(k)
  \/ \E c \in Callers \ {LoopCaller} : RegisterOrSubscribe(c, "onchain")
  \/ \E c \in Callers \ {LoopCaller} : Return(c)
  \/ \E c \in Callers : SubscriberRecv(c)
  \/ \E c \in Callers : OnchainScanCompletes(c)
  \/ \E c \in Callers : LightningSyncCompletes(c)
  \/ \E c \in Callers : Housekeeping(c)
  \/ \E c \in Callers : Propagate(c)

\* The background loop before any shutdown signal, its two sync branches
\* running the sync operations next to callers of their own, who sync
\* the on-chain wallet. The fee branch, which consults no coordinator, is
\* left to SchedSpec.
LoopSpec == SchedInit /\ [][LoopNext]_vars

\* The same loop with Node::stop sending the shutdown signal.
ShutdownNext ==
  \/ LoopNext
  \/ SendStop
  \/ StopSelected(SyncLoop)

ShutdownSpec == SchedInit /\ [][ShutdownNext]_vars

\* ------------------------------------------- the shared locks, lock by lock
\* The two status mutexes and the RwLock of the node metrics.
OnchainStatusLock == "onchain_wallet_sync_status"
LightningStatusLock == "lightning_wallet_sync_status"
NodeMetricsLock == "node_metrics"

\* The functions of ChainSource that take them.
LockFunctions ==
  {"sync_onchain_wallet", "sync_lightning_wallet", "update_fee_rate_estimates"}

Acquire(l, mode) == [op |-> "acquire", lock |-> l, mode |-> mode]
Release(l) == [op |-> "release", lock |-> l, mode |-> "none"]

\* A Lightning sync that asks for the status mutex with the node metrics
\* still write-locked.
sync_lightning_wallet_locks_nested ==
  <<Acquire(LightningStatusLock, "lock"), Release(LightningStatusLock),
    Acquire(NodeMetricsLock, "write"), Release(NodeMetricsLock),
    Acquire(NodeMetricsLock, "write"),
    Acquire(LightningStatusLock, "lock"),
    Release(NodeMetricsLock), Release(LightningStatusLock)>>

\* sync_onchain_wallet in lock operations: the status mutex in the block
\* around register_or_subscribe_pending_sync; the read guard of the statement
\* that computes incremental_sync; the write guard of the block that records
\* the timestamp; the status mutex of the statement that propagates.
sync_onchain_wallet_locks ==
  <<Acquire(OnchainStatusLock, "lock"), Release(OnchainStatusLock),
    Acquire(NodeMetricsLock, "read"), Release(NodeMetricsLock),
    Acquire(NodeMetricsLock, "write"), Release(NodeMetricsLock),
    Acquire(OnchainStatusLock, "lock"), Release(OnchainStatusLock)>>

\* sync_lightning_wallet in lock operations: the status mutex in its block,
\* the write guard of the timestamp block, the write guard that
\* periodically_archive_fully_resolved_monitors holds from its first line to
\* its return, the status mutex of the statement that propagates.
sync_lightning_wallet_locks ==
  <<Acquire(LightningStatusLock, "lock"), Release(LightningStatusLock),
    Acquire(NodeMetricsLock, "write"), Release(NodeMetricsLock),
    Acquire(NodeMetricsLock, "write"), Release(NodeMetricsLock),
    Acquire(LightningStatusLock, "lock"), Release(LightningStatusLock)>>

\* update_fee_rate_estimates in lock operations: the write guard of the block
\* that records the timestamp.
update_fee_rate_estimates_locks ==
  <<Acquire(NodeMetricsLock, "write"), Release(NodeMetricsLock)>>

LockProgram(fn) ==
  CASE fn = "sync_onchain_wallet" -> sync_onchain_wallet_locks
    [] fn = "sync_lightning_wallet" -> sync_lightning_wallet_locks
    [] OTHER -> update_fee_rate_estimates_locks

\* The position behind the last lock operation: the function returns.
LockReturn(fn) == Len(LockProgram(fn)) + 1

\* Where a function can be once lock operation i is done: at the next one, or
\* further on by a branch that takes no lock. A subscriber awaits its receiver
\* and returns; a provider call that failed or timed out goes straight to the
\* propagate; a `?` on write_node_metrics returns at once, its guard dropped.
LockSuccessors(fn, i) ==
  CASE fn = "sync_onchain_wallet" /\ i = 2 -> {3, LockReturn(fn)}
    [] fn = "sync_onchain_wallet" /\ i = 4 -> {5, 7}
    [] fn = "sync_onchain_wallet" /\ i = 6 -> {7, LockReturn(fn)}
    [] fn = "sync_lightning_wallet" /\ i = 2 -> {3, 7, LockReturn(fn)}
    [] fn = "sync_lightning_wallet" /\ i = 4 -> {5, LockReturn(fn)}
    [] fn = "sync_lightning_wallet" /\ i = 6 -> {7, LockReturn(fn)}
    [] fn = "update_fee_rate_estimates" /\ i = 0 -> {1, LockReturn(fn)}
    [] OTHER -> {i + 1}

\* The release that ends propagate_result_to_subscribers: the one place where
\* a panic (the debug_assert! of a failed send) unwinds with a guard held.
PropagateRelease(fn, i) ==
  fn \in {"sync_onchain_wallet", "sync_lightning_wallet"} /\ i = 8

IdleTask == [fn |-> "none", at |-> 0]

\* A task that a panic has ended.
PanickedTask == [fn |-> "panicked", at |-> 0]

\* The lock operation task t is at, if any.
AtLockOp(t) ==
  /\ lock_pc[t].fn \in LockFunctions
  /\ lock_pc[t].at \in 1..Len(LockProgram(lock_pc[t].fn))

LockOp(t) == LockProgram(lock_pc[t].fn)[lock_pc[t].at]

Holders(l) == {h \in DOMAIN held : \E g \in held[h] : g.lock = l}
Writers(l) ==
  {h \in DOMAIN held : \E g \in held[h] : g.lock = l /\ g.mode # "read"}

\* std Mutex::lock and RwLock::write return when nobody holds the lock,
\* RwLock::read when no writer does.
LockAvailable(l, mode) ==
  IF mode = "read" THEN Writers(l) = {} ELSE Holders(l) = {}

\* A task calls one of the functions.
LockCall(t, fn) ==
  /\ lock_pc[t] = IdleTask
  /\ \E i \in LockSuccessors(fn, 0) :
       lock_pc' = [lock_pc EXCEPT ![t] = [fn |-> fn, at |-> i]]
  /\ UNCHANGED <<held, poisoned>>

\* lock() / read() / write() returns the guard and unwrap() hands it on.
LockAcquire(t) ==
  /\ AtLockOp(t)
  /\ LockOp(t).op = "acquire"
  /\ LockOp(t).lock \notin poisoned
  /\ LockAvailable(LockOp(t).lock, LockOp(t).mode)
  /\ held' = [held EXCEPT
                ![t] = @ \cup {[lock |-> LockOp(t).lock, mode |-> LockOp(t).mode]}]
  /\ lock_pc' = [lock_pc EXCEPT ![t].at = @ + 1]
  /\ UNCHANGED poisoned

\* lock() on a poisoned mutex returns, once the mutex is free, the guard
\* inside a PoisonError; unwrap() panics and the guard is dropped with it.
LockAcquirePoisoned(t) ==
  /\ AtLockOp(t)
  /\ LockOp(t).op = "acquire"
  /\ LockOp(t).lock \in poisoned
  /\ LockAvailable(LockOp(t).lock, LockOp(t).mode)
  /\ lock_pc' = [lock_pc EXCEPT ![t] = PanickedTask]
  /\ held' = [held EXCEPT ![t] = {}]
  /\ UNCHANGED poisoned

\* The guard goes out of scope: at the end of its block or statement, or at
\* a `?` that leaves the function.
LockRelease(t) ==
  /\ AtLockOp(t)
  /\ LockOp(t).op = "release"
  /\ held' = [held EXCEPT ![t] = {g \in @ : g.lock # LockOp(t).lock}]
  /\ \E i \in LockSuccessors(lock_pc[t].fn, lock_pc[t].at) :
       lock_pc' = [lock_pc EXCEPT ![t].at = i]
  /\ UNCHANGED poisoned

\* In a build with debug assertions a failed send panics inside
\* propagate_result_to_subscribers: the unwinding drops the guard it holds
\* and the mutex is poisoned.
LockPanic(t) ==
  /\ debug_assertions
  /\ AtLockOp(t)
  /\ PropagateRelease(lock_pc[t].fn, lock_pc[t].at)
  /\ poisoned' = poisoned \cup {g.lock : g \in held[t]}
  /\ held' = [held EXCEPT ![t] = {}]
  /\ lock_pc' = [lock_pc EXCEPT ![t] = PanickedTask]

\* The function has returned, or its task has ended with a panic.
LockDone(t) ==
  /\ \/ lock_pc[t] = PanickedTask
     \/ /\ lock_pc[t].fn \in LockFunctions
        /\ lock_pc[t].at = LockReturn(lock_pc[t].fn)
  /\ lock_pc' = [lock_pc EXCEPT ![t] = IdleTask]
  /\ held' = [held EXCEPT ![t] = {}]
  /\ UNCHANGED poisoned

\* No task is inside a function; no lock is held or poisoned.
LockSpecInit ==
  /\ SyncInit
  /\ FeeInit /\ network = "Bitcoin"
  /\ NotStarted
  /\ WalletInit
  /\ provider_silent = FALSE
  /\ BroadcastInit
  /\ PaymentStoreInit
  /\ ApiInit
  /\ lock_pc = [t \in Callers |-> IdleTask]
  /\ held = [t \in Callers |-> {}]
  /\ poisoned = {}
  /\ debug_assertions \in BOOLEAN

LockNext ==
  /\ \/ \E t \in Callers, fn \in LockFunctions : LockCall(t, fn)
     \/ \E t \in Callers : LockAcquire(t)
     \/ \E t \in Callers : LockAcquirePoisoned(t)
     \/ \E t \in Callers : LockRelease(t)
     \/ \E t \in Callers : LockPanic(t)
     \/ \E t \in Callers : LockDone(t)
  /\ UNCHANGED <<syncVars, metricsVars, feeVars, schedVars, walletVars,
                 envVars, queueVars, storeVars, apiVars>>

\* Tasks that call the three functions again and again, seen at their lock
\* operations only, in a build with or without debug assertions.
LockSpec == LockSpecInit /\ [][LockNext]_vars

\* ------------------------------------------------------------------- Next
Next ==
  \/ \E c \in Callers, k \in Kinds : RegisterOrSubscribe(c, k)
  \/ \E c \in Callers : SubscriberRecv(c)
  \/ \E c \in Callers : OnchainScanCompletes(c)
  \/ \E c \in Callers : LightningSyncCompletes(c)
  \/ \E c \in Callers : Housekeeping(c)
  \/ \E c \in Callers : Propagate(c)
  \/ \E c \in Callers : Return(c)

Spec == Init /\ [][Next]_vars

\* ================================================================ claims
ProviderCallsInFlight(k) ==
  {c \in Callers : pc[c] = "provider" /\ kind[c] = k}

\* The step in which caller c's invocation returns.
Returns(c) == pc[c] # "done" /\ pc'[c] = "done"

\* C1: for each sync kind, at most one provider call of that kind is in
\* flight at any instant, whatever the interleaving of the callers.
C1_AtMostOneProviderCall ==
  \A k \in Kinds : Cardinality(ProviderCallsInFlight(k)) <= 1

\* C1 witness: a provider call is in flight while another caller of the same
\* kind has arrived and waits as a subscriber.
C1_Witness ==
  \E c \in Callers, s \in Callers :
    /\ c # s
    /\ pc[c] = "provider" /\ pc[s] = "subscribed"
    /\ kind[c] = kind[s]

\* C2 (as claimed): when the leader of a pass returns its Result, every caller
\* subscribed to that pass has been handed the same Result, for every outcome
\* of the pass.
C2_SubscribersGetLeaderResult ==
  [][\A c \in Callers :
       (leader[c] /\ Returns(c)) =>
         \A s \in receivers[kind[c]] : inbox'[s] = res'[c]]_vars

\* C3 (as claimed): whenever no sync invocation of a kind is executing, the
\* status of that kind is Completed.
C3_IdleMeansCompleted ==
  \A k \in Kinds :
    (\A c \in Callers : kind[c] # k) => status[k] = "Completed"

\* C4 (as claimed): the on-chain scan in flight is a full scan exactly when no
\* on-chain sync timestamp is recorded.
C4_FullScanIffNoTimestamp ==
  \A c \in Callers :
    (pc[c] = "provider" /\ kind[c] = "onchain") =>
      (request[c] = "full_scan"
         <=> node_metrics.latest_onchain_wallet_sync_timestamp = None)

\* C5 (as claimed): when the caller that ran an on-chain pass returns an error,
\* the in-memory on-chain timestamp is the one from before its call.
C5_OnchainErrorKeepsTimestamp ==
  [][\A c \in Callers :
       (leader[c] /\ kind[c] = "onchain" /\ Returns(c) /\ res'[c] # "Ok") =>
         node_metrics'.latest_onchain_wallet_sync_timestamp = ts_before[c]]_vars

\* C6 (as claimed): when the caller that ran a Lightning pass returns an error,
\* the in-memory Lightning timestamp is the one from before its call.
C6_LightningErrorKeepsTimestamp ==
  [][\A c \in Callers :
       (leader[c] /\ kind[c] = "lightning" /\ Returns(c) /\ res'[c] # "Ok") =>
         node_metrics'.latest_lightning_wallet_sync_timestamp = ts_before[c]]_vars

\* C7 (as claimed): in every reachable state the in-memory NodeMetrics equals
\* the NodeMetrics last written to the key-value store.
C7_MemoryEqualsStore ==
  node_metrics = kv_node_metrics

\* C8: the housekeeping of a successful Lightning sync invokes the archival
\* if and only if no archival height is recorded or the best height is at
\* least the interval above it, and then records the best height.
C8_ArchivalThreshold ==
  \A c \in Callers :
    LET h == housekeeping[c] IN
    h.ran =>
      /\ h.archived <=>
           (\/ h.latest = None
            \/ h.cur_height - h.latest[1] >=
                 RESOLVED_CHANNEL_MONITOR_ARCHIVAL_INTERVAL)
      /\ h.archived =>
           node_metrics.latest_channel_monitor_archival_height
             = Some(h.cur_height)

\* C8 witness: a housekeeping run found a recorded height at least the
\* interval below the best height and archived.
C8_Witness ==
  \E c \in Callers :
    /\ housekeeping[c].ran
    /\ housekeeping[c].latest # None
    /\ housekeeping[c].archived
    /\ pc[c] = "propagate"

\* C9 (as claimed): with interval 4032 and recorded height 100, best height
\* 4199 does not trigger the archival and best height 4132 does.
C9_Original ==
  \A c \in Callers :
    LET h == housekeeping[c] IN
    (RESOLVED_CHANNEL_MONITOR_ARCHIVAL_INTERVAL = 4032
       /\ h.ran /\ h.latest = Some(100)) =>
      /\ h.cur_height = 4199 => ~h.archived
      /\ h.cur_height = 4132 => h.archived

\* C9 (amended): with interval 4032 and recorded height 100, best height 4199
\* triggers the archival (4199 - 100 >= 4032), and so does best height 4132.
C9_BothHeightsArchive ==
  \A c \in Callers :
    LET h == housekeeping[c] IN
    (RESOLVED_CHANNEL_MONITOR_ARCHIVAL_INTERVAL = 4032
       /\ h.ran /\ h.latest = Some(100)
       /\ h.cur_height \in {4132, 4199}) =>
      h.archived

\* C9 witness: a housekeeping run with recorded height 100 and best height
\* 4199 archived.
C9_Witness ==
  \E c \in Callers :
    /\ housekeeping[c].ran
    /\ housekeeping[c].latest = Some(100)
    /\ housekeeping[c].cur_height = 4199
    /\ housekeeping[c].archived

\* Caller c runs the archival housekeeping in this step.
RunsHousekeeping(c) ==
  ~housekeeping[c].ran /\ housekeeping'[c].ran

\* C10: the archival housekeeping runs, and the recorded archival height
\* changes, only in a step of the leader of a Lightning pass whose
\* synchronization call succeeded and whose timestamp has been recorded.
C10_ArchivalOnlyAfterSuccessfulSync ==
  [][/\ \A c \in Callers :
          RunsHousekeeping(c) =>
            /\ leader[c] /\ kind[c] = "lightning"
            /\ sync_res[c] = "ok" /\ recorded[c]
     /\ (node_metrics'.latest_channel_monitor_archival_height
           # node_metrics.latest_channel_monitor_archival_height) =>
          \E c \in Callers : RunsHousekeeping(c) /\ housekeeping'[c].archived
    ]_vars

\* C10 witness: the leader of a Lightning pass has archived while another
\* caller is subscribed to its pass.
C10_Witness ==
  \E c \in Callers, s \in Callers :
    /\ housekeeping[c].ran /\ housekeeping[c].archived
    /\ leader[c] /\ kind[c] = "lightning" /\ recorded[c]
    /\ pc[s] = "subscribed" /\ kind[s] = "lightning"

\* The step in which the fee rate update gets an answer from the provider and
\* runs to its return.
FeeUpdateCompletes == fee_pc = "get_fee_estimates" /\ fee_pc' = "done"

\* C11: when the provider answers with an empty map of estimates and the
\* network is Bitcoin, update_fee_rate_estimates returns
\* FeerateEstimationUpdateFailed and leaves the fee rate cache and
\* latest_fee_rate_cache_update_timestamp as they were.
C11_EmptyOnMainnetFails ==
  [][(FeeUpdateCompletes /\ estimates' = Some(<<>>) /\ network = "Bitcoin") =>
       /\ fee_res' = "FeerateEstimationUpdateFailed"
       /\ fee_rate_cache' = fee_rate_cache
       /\ node_metrics'.latest_fee_rate_cache_update_timestamp
            = node_metrics.latest_fee_rate_cache_update_timestamp
       /\ kv_node_metrics' = kv_node_metrics]_vars

\* C11 witness: on Bitcoin, an update that was answered with an empty map has
\* failed while the cache and the timestamp of an earlier update are in place.
C11_Witness ==
  /\ network = "Bitcoin"
  /\ fee_pc = "done"
  /\ estimates = Some(<<>>)
  /\ fee_res = "FeerateEstimationUpdateFailed"
  /\ DOMAIN fee_rate_cache = ConfirmationTargets
  /\ node_metrics.latest_fee_rate_cache_update_timestamp = Some(1)

C13_MissedTickSkipped ==
  [][\A k \in TimerKinds :
       /\ ticks_ready'[k] <= 1
       /\ in_flight'[k] <= 1
       /\ in_flight[k] >= 1 => in_flight'[k] <= in_flight[k]]_vars

\* C13 witness: the timer of a kind has fired again while the engine call the
\* loop dispatched for that kind is still awaited.
C13_Witness ==
  \E k \in TimerKinds :
    /\ loop_pc[SyncLoop] = "await"
    /\ in_flight[k] = 1
    /\ ticks_ready[k] = 1

\* C14 (as claimed): while the engine call of one kind is in flight and no
\* shutdown was signalled, a tick of another kind that is due, and has no
\* call of its own running, can be dispatched at once: some loop is at its
\* select! to take it.
C14_KindsRunIndependently ==
  \A x \in TimerKinds, y \in TimerKinds :
    (x # y /\ in_flight[x] >= 1 /\ in_flight[y] = 0 /\ ticks_ready[y] >= 1
       /\ ~stop_sent) =>
      \E l \in DOMAIN loop_pc : CanSelectTick(l, y)

\* C15 (as claimed): an engine call that a background loop awaits is never
\* cancelled: the loop stays at that await until the call returns to it.
C15_InFlightCallRunsToCompletion ==
  [][\A l \in DOMAIN loop_pc :
       loop_pc[l] = "await" => loop_pc'[l] \in {"await", "select"}]_vars

\* C16 (as claimed): once the shutdown signal has been sent, the loop
\* dispatches no engine call of any kind.
C16_NoDispatchAfterStop ==
  [][stop_sent => \A k \in TimerKinds : in_flight'[k] <= in_flight[k]]_vars

\* Caller c enters a sync of kind k in this step.
Enters(c, k) == pc[c] = "idle" /\ pc'[c] # "idle" /\ kind'[c] = k

\* C17: the two sync kinds have coordinators of their own: a caller entering
\* a sync of a kind whose status is Completed becomes leader and issues its
\* provider call whatever the status of the other kind; the receivers of a
\* kind's notifier are callers of that kind; a result reaches the receiver of
\* a caller only from a leader of the caller's own kind.
C17_SeparateCoordinators ==
  [][/\ \A c \in Callers, k \in Kinds :
          (Enters(c, k) /\ status[k] = "Completed") =>
            leader'[c] /\ pc'[c] = "provider"
     /\ \A k \in Kinds : \A s \in receivers'[k] : kind'[s] = k
     /\ \A s \in Callers :
          (inbox'[s] # inbox[s] /\ inbox'[s] # "none") =>
            \E c \in Callers :
              pc[c] = "propagate" /\ pc'[c] = "done" /\ kind[c] = kind[s]
    ]_vars

\* C17 witness: an on-chain provider call and a Lightning provider call are in
\* flight together, both kinds InProgress.
C17_Witness ==
  \E c \in Callers, d \in Callers :
    /\ pc[c] = "provider" /\ kind[c] = "onchain"
    /\ pc[d] = "provider" /\ kind[d] = "lightning"
    /\ status["onchain"] = "InProgress"
    /\ status["lightning"] = "InProgress"

\* C18 (as claimed): one invocation of the on-chain wallet sync requests at
\* most one scan from the chain data provider, whatever the provider answers.
C18_AtMostOneScanRequest ==
  \A c \in Callers : scan_requests[c] <= 1

\* The step in which the timed scan of caller c's on-chain pass completes.
OnchainScanDone(c) ==
  pc[c] = "provider" /\ kind[c] = "onchain" /\ pc'[c] # "provider"

PropagateEnds(c) ==
  pc[c] \in {"propagate", "send"} /\ pc'[c] \notin {"propagate", "send"}

\* C20 (as claimed): a call of propagate_result_to_subscribers on an
\* InProgress status always ends with the status Completed and the caller
\* going on to return, also when the send fails because the last receiver
\* was dropped after the receiver count was read.
C20_PropagateAlwaysResets ==
  [][\A c \in Callers :
       (PropagateEnds(c) /\ status[Coordinator(kind[c])] = "InProgress") =>
         /\ status'[Coordinator(kind[c])] = "Completed"
         /\ pc'[c] = "done"]_vars

\* C21: register_or_subscribe_pending_sync acts in one step under the status
\* mutex. On Completed it sets the status InProgress with a new notifier (one
\* without receivers) and answers None: the caller is leader and issues the
\* provider call. On InProgress it answers a receiver of the existing
\* notifier and leaves the status and the notifier's other receivers as they
\* were; that caller issues no provider call, then or later.
C21_RegisterOrSubscribeAtomic ==
  [][\A c \in Callers :
       /\ \A k \in Kinds :
            /\ (Enters(c, k) /\ status[k] = "Completed") =>
                 /\ status'[k] = "InProgress"
                 /\ receivers'[k] = {}
                 /\ leader'[c] /\ request'[c] # "none"
            /\ (Enters(c, k) /\ status[k] = "InProgress") =>
                 /\ status'[k] = "InProgress"
                 /\ receivers'[k] = receivers[k] \cup {c}
                 /\ ~leader'[c] /\ request'[c] = "none"
                 /\ pc'[c] = "subscribed"
       /\ (pc[c] = "subscribed") =>
            (request'[c] = "none" /\ pc'[c] # "provider")]_vars

\* C21 witness: a caller has subscribed to the notifier of a running pass
\* whose leader awaits its provider call; the subscriber has issued none.
C21_Witness ==
  \E c \in Callers, s \in Callers :
    /\ leader[c] /\ pc[c] = "provider" /\ request[c] # "none"
    /\ pc[s] = "subscribed" /\ kind[s] = kind[c] /\ request[s] = "none"
    /\ receivers[kind[c]] = {s}
    /\ status[kind[c]] = "InProgress"

\* The pass of kind k is running: its leader is inside its invocation.
PassRunning(k) ==
  \E c \in Callers : leader[c] /\ kind[c] = k /\ pc[c] \notin {"idle", "done"}

\* C22 (as claimed): a result reaches a receiver only in the step in which the
\* leader of the running pass of that kind propagates, it is that leader's
\* result, and the receiver belongs to the notifier of that pass and holds
\* nothing yet; and every subscriber receives a result: none is left
\* subscribed with nothing received once the pass it subscribed to is over.
C22_OneResultPerSubscriberPerPass ==
  /\ [](\A s \in Callers :
          (pc[s] = "subscribed" /\ inbox[s] = "none") => PassRunning(kind[s]))
  /\ [][\A s \in Callers :
          (inbox'[s] # inbox[s] /\ inbox'[s] # "none") =>
            /\ inbox[s] = "none" /\ pc[s] = "subscribed"
            /\ s \in receivers[kind[s]]
            /\ \E c \in Callers :
                 /\ leader[c] /\ kind[c] = kind[s]
                 /\ pc[c] = "propagate" /\ pc'[c] = "done"
                 /\ inbox'[s] = res[c]]_vars

LightningSyncSucceeds(c) ==
  /\ pc[c] = "provider" /\ kind[c] = "lightning"
  /\ pc'[c] # "provider"
  /\ res'[c] \notin {"TxSyncFailed", "TxSyncTimeout"}

\* C24: a Lightning pass makes one synchronization call for its whole batch,
\* and when that call succeeds with the chain tip at height H, the channel
\* manager, the chain monitor and the output sweeper are all at height H:
\* none is left at the height it had while another advanced.
C24_BatchAdvancedTogether ==
  [][\A c \in Callers :
       /\ (Enters(c, "lightning") /\ leader'[c]) => request'[c] = "tx_sync"
       /\ (kind[c] = "lightning" /\ pc[c] \notin {"idle", "provider"}) =>
            pc'[c] # "provider"
       /\ LightningSyncSucceeds(c) =>
            \A cf \in Confirmables :
              best_block_heights(best_height', confirmable_height')[cf]
                = best_height']_vars

\* C24 witness: a pass succeeded at a chain tip above the height the three
\* Confirmables had; all three are at the new height.
C24_Witness ==
  \E c \in Callers :
    /\ pc[c] = "housekeeping" /\ kind[c] = "lightning"
    /\ sync_res[c] = "ok"
    /\ best_height = 4132
    /\ \A cf \in OtherConfirmables : confirmable_height[cf] = 4132

\* C25 (as claimed): every network-bound engine operation is wrapped in a
\* timeout: whenever an on-chain scan, a Lightning sync pass, a fee-estimate
\* fetch, a wallet sync or a broadcast is awaited, the step that ends it can
\* be taken, also when the provider answers nothing.
C25_EveryProviderCallCanEnd ==
  /\ \A c \in Callers :
       pc[c] = "provider" =>
         ENABLED (OnchainScanCompletes(c) \/ LightningSyncCompletes(c))
  /\ fee_pc = "get_fee_estimates" => ENABLED FeeEstimatesComplete
  /\ next_package # None => ENABLED BroadcastCompletes
  /\ \A c \in Callers :
       wallet_pc[c] \in {"sync", "retry"} =>
         ENABLED (WalletSyncCompletes(c) \/ WalletRetryCompletes(c))

\* C26 (as claimed): while an on-chain wallet sync awaits the chain data
\* provider, no caller holds the wallet mutex or the mutex that coordinates
\* the syncs.
C26_NoLockAcrossProviderCall ==
  /\ \A c \in Callers :
       wallet_pc[c] \in {"sync", "retry"} =>
         (inner_lock = None /\ sync_lock = None)
  /\ \A c \in Callers :
       (pc[c] = "provider" /\ kind[c] = "onchain") =>
         StatusLockFree(Coordinator("onchain"))

\* The step in which the loop's call of kind k returns an error to it.
LoopCallFails(k) ==
  in_flight'[k] < in_flight[k] /\ engine_result'[k] = "Err"

\* The step in which the loop dispatches a call of kind k.
LoopCalls(k) == in_flight'[k] > in_flight[k]

\* No caller other than the loop is inside a sync of kind k.
OnlyLoopSyncs(k) ==
  \A d \in Callers \ {LoopCaller} :
    pc[d] = "idle" \/ Coordinator(kind[d]) # Coordinator(k)

\* C27: a failed engine call never stops the scheduler. When a call returns
\* an error to continuously_sync_wallets the loop is at its select! again
\* with no call dispatched and no tick consumed (the error is discarded, no
\* immediate retry); a call is only ever dispatched by a tick of its kind;
\* and the sync attempt dispatched by the next tick after a failure becomes
\* leader when no other caller is syncing that kind.
C27_FailedCallNeverStopsScheduler ==
  [][\A k \in TimerKinds :
       /\ LoopCallFails(k) =>
            /\ loop_pc'[SyncLoop] = "select"
            /\ in_flight' = [j \in TimerKinds |-> 0]
            /\ ticks_ready' = ticks_ready
       /\ LoopCalls(k) => ticks_ready'[k] = ticks_ready[k] - 1
       /\ (k \in Kinds /\ LoopCalls(k) /\ engine_result[k] = "Err"
             /\ OnlyLoopSyncs(k)) =>
            leader'[LoopCaller]]_vars

\* The step in which the timed broadcast of the current transaction completes.
BroadcastCompleted ==
  next_package # None /\ broadcast_calls' # broadcast_calls

\* C28: process_broadcast_queue logs no error for an HTTP 400 answer, has
\* called broadcast exactly once for a transaction when its outcome is
\* handled, and after every outcome goes on to the next transaction of the
\* package, or after the last one back to the queue, from which it has taken
\* nothing meanwhile.
C28_BroadcastContinuesWithoutRetry ==
  [][BroadcastCompleted =>
       LET package == next_package[1]
           entry == broadcast_log'[tx_index][1]
       IN /\ entry.outcome = "http_400" => ~entry.error
          /\ broadcast_calls'[tx_index] = 1
          /\ \A i \in 1..Len(package) : broadcast_calls'[i] <= 1
          /\ IF tx_index < Len(package)
             THEN next_package' = next_package /\ tx_index' = tx_index + 1
             ELSE next_package' = None
          /\ broadcast_queue' = broadcast_queue]_vars

\* A package of two transactions is through: the first was answered 400 and
\* logged no error, the second timed out, each was broadcast once, and a
\* later package waits in the queue.
C28_Witness ==
  /\ next_package = None
  /\ Len(broadcast_log) = 2
  /\ broadcast_log[1] = Some([outcome |-> "http_400", error |-> FALSE])
  /\ broadcast_log[2] = Some([outcome |-> "timeout", error |-> TRUE])
  /\ broadcast_calls = <<1, 1>>
  /\ broadcast_queue # <<>>

\* C29: after remove_payment(hash) has returned Ok, payment(hash) returns
\* None and list_payments holds no payment of that hash, whatever was
\* inserted or updated before.
C29_RemovedPaymentIsGone ==
  (payment_call.op = "remove" /\ payment_ret = "Ok(())") =>
    /\ get(payments, payment_call.hash) = None
    /\ \A payment \in list_filter(payments) :
         payment.hash # payment_call.hash

\* The payment with exactly the fields set in update u replaced.
FieldsSetApplied(payment, u) ==
  [hash |-> payment.hash,
   preimage |-> IF u.preimage = None THEN payment.preimage ELSE u.preimage[1],
   secret |-> IF u.secret = None THEN payment.secret ELSE u.secret[1],
   amount_msat |->
     IF u.amount_msat = None THEN payment.amount_msat ELSE u.amount_msat[1],
   direction |->
     IF u.direction = None THEN payment.direction ELSE u.direction[1],
   status |-> IF u.status = None THEN payment.status ELSE u.status[1],
   maximum_counterparty_skimmed_fee_msat |->
     IF u.maximum_counterparty_skimmed_fee_msat = None
     THEN payment.maximum_counterparty_skimmed_fee_msat
     ELSE u.maximum_counterparty_skimmed_fee_msat[1]]

\* C30: an insert that returns Ok returns Ok(false) when no payment of that
\* hash was stored and Ok(true) when it replaced one, and afterwards get
\* answers the payment and the key-value store holds its encoding; an update
\* that returns Ok returns Ok(true) and leaves the payment with exactly the
\* fields set in the update replaced when the hash is stored, and returns
\* Ok(false) and changes nothing when it is not.
C30_InsertAndUpdateContract ==
  [][LET call == payment_call'
         h == call.hash
     IN /\ (call.op = "insert" /\ payment_ret' # "Err(PersistenceFailed)") =>
             /\ payment_ret' =
                  (IF payments[h] = None THEN "Ok(false)" ELSE "Ok(true)")
             /\ get(payments', h) = call.arg
             /\ kv_payments'[h] # None
             /\ read(kv_payments'[h][1]) = call.arg[1]
        /\ (call.op = "update" /\ payment_ret' # "Err(PersistenceFailed)") =>
             IF payments[h] # None
             THEN /\ payment_ret' = "Ok(true)"
                  /\ payments' =
                       [payments EXCEPT
                          ![h] = Some(FieldsSetApplied(payments[h][1],
                                                       call.arg[1]))]
             ELSE /\ payment_ret' = "Ok(false)"
                  /\ payments' = payments
                  /\ kv_payments' = kv_payments]_vars

\* The step in which the method is called.
Called(method) == api_call' # api_call /\ api_call'.method = method

\* Called on this node, the method gets as far as using the runtime.
UsesRuntime(method) ==
  method = "receive_payment_via_jit_channel" => liquidity_source

\* C31: start on a running node returns AlreadyRunning and changes nothing;
\* stop on a node that is not running returns NotRunning; after stop has
\* returned Ok the node is not running; a method that uses the runtime
\* returns NotRunning on a node that is not running; and the node is running
\* iff the last call of start or stop that returned Ok was start.
C31_RunState ==
  /\ [](is_running <=> last_ok = "start")
  /\ []((api_call.method = "stop" /\ api_ret = "Ok") => ~is_running)
  /\ [][/\ (Called("start") /\ is_running) =>
            /\ api_ret' = "AlreadyRunning"
            /\ UNCHANGED <<syncVars, metricsVars, feeVars, schedVars,
                           walletVars, envVars, queueVars, storeVars, last_ok,
                           liquidity_source, lockVars>>
        /\ (Called("stop") /\ ~is_running) => api_ret' = "NotRunning"
        /\ \A method \in ApiMethods :
             (Called(method) /\ UsesRuntime(method) /\ ~is_running) =>
               api_ret' = "NotRunning"]_vars

\* C32: in the step in which the leader of a pass returns, with Ok or with
\* any error, no caller subscribed to a pass of that kind is left waiting on
\* the notifier with nothing to receive.
C32_NoSubscriberLeftWaiting ==
  [][\A c \in Callers :
       (leader[c] /\ Returns(c)) =>
         \A s \in Callers \ {c} :
           (pc'[s] = "subscribed" /\ kind'[s] = kind[c]) =>
             inbox'[s] # "none"]_vars

\* C33: in Wallet::sync of wallet.rs a caller that found a sync in progress
\* and was woken when it ended returns the Result of that sync.
C33_WaiterGetsResultOfSync ==
  \A w \in Callers :
    (woken_by[w] # "none" /\ wallet_res[w] # "none") =>
      wallet_res[w] = woken_by[w]

\* Caller c of Wallet::sync has a cvar.notify_all() ahead of it.
WillNotify(c) ==
  wallet_pc[c] \in {"lock_inner", "sync", "retry", "drop_guard", "notify", "woken"}

\* C34: in Wallet::sync of wallet.rs a caller blocked in cvar.wait is never
\* left without a caller that is still going to notify: no wake-up is lost.
C34_NoLostWakeup ==
  \A w \in Callers :
    wallet_pc[w] = "wait" => \E c \in Callers \ {w} : WillNotify(c)

\* C35 (as claimed): when every leader and subscriber runs its call to
\* completion, no subscriber's receive fails: no receiver is ever closed with
\* nothing in it and no caller hits the "Failed to receive wallet sync result"
\* assertion, because a step that drops or replaces the notifier of a running
\* pass has handed a result to every receiver subscribed at that moment.
C35_ReceiveNeverFails ==
  /\ [](\A s \in Callers : inbox[s] # "closed" /\ pc[s] # "panicked")
  /\ [][\A k \in Kinds :
          (status[k] = "InProgress" /\ status'[k] # "InProgress") =>
            \A s \in receivers[k] : inbox'[s] \in Results]_vars

\* The leader of a pass has propagated and returned, and a subscriber of that
\* pass holds the leader's result in its receiver.
C35_Witness ==
  \E s \in Callers : \E c \in Callers \ {s} :
    /\ pc[s] = "subscribed" /\ inbox[s] \in Results
    /\ pc[c] = "done" /\ res[c] = inbox[s]
    /\ status[kind[s]] = "Completed" /\ receivers[kind[s]] = {}

\* The sync call the loop awaits can still finish: it is the leader of its
\* pass (whose provider call answers or times out), or a subscriber that has
\* been sent a result or whose pass is still running.
AwaitedCallCanFinish ==
  \/ pc[LoopCaller] \notin {"idle", "subscribed"}
  \/ /\ pc[LoopCaller] = "subscribed"
     /\ inbox[LoopCaller] # "none" \/ PassRunning(kind[LoopCaller])

\* C36 (as claimed, in its safety form): once the shutdown signal is sent,
\* continuously_sync_wallets has returned, or is at its select!, where the
\* branch of the stop receiver can be taken, or awaits an engine call that
\* can still finish; it is never left awaiting a call that cannot return.
C36_LoopReturnsAfterShutdown ==
  stop_sent =>
    \/ loop_pc[SyncLoop] = "returned"
    \/ loop_pc[SyncLoop] = "select" /\ ENABLED StopSelected(SyncLoop)
    \/ loop_pc[SyncLoop] = "await" /\ AwaitedCallCanFinish

\* C37 (as claimed): when update_fee_rate_estimates returns an error, whichever
\* it is, the fee rate cache holds exactly the entries it held before the call
\* and latest_fee_rate_cache_update_timestamp is unchanged.
C37_FailedFeeUpdateChangesNothing ==
  [][(FeeUpdateCompletes /\ fee_res' # "Ok") =>
       /\ fee_rate_cache' = fee_rate_cache
       /\ node_metrics'.latest_fee_rate_cache_update_timestamp
            = node_metrics.latest_fee_rate_cache_update_timestamp]_vars

\* C38 (as claimed): an insert or update of the PaymentStore that returns
\* PersistenceFailed leaves the in-memory map as it was, so that get of the
\* hash answers afterwards what it answered before, the last value written to
\* the key-value store when it did so before.
C38_FailedWriteLeavesMapUnchanged ==
  [][LET call == payment_call'
     IN (call.op \in {"insert", "update"}
           /\ payment_ret' = "Err(PersistenceFailed)") =>
          /\ payments' = payments
          /\ get(payments', call.hash) = get(payments, call.hash)
          /\ kv_payments' = kv_payments]_vars

\* Task t is at a lock(), read() or write() it has not been answered yet.
WaitsForLock(t) == AtLockOp(t) /\ LockOp(t).op = "acquire"

\* The tasks whose guards keep task t's acquisition from being answered.
Blockers(t) ==
  IF LockOp(t).mode = "read"
  THEN Writers(LockOp(t).lock)
  ELSE Holders(LockOp(t).lock)

\* C39: the sync engines are deadlock-free. No task holds two of the shared
\* locks (the on-chain status mutex, the Lightning status mutex, the
\* NodeMetrics lock) at once, and every acquisition is granted: a task that
\* asks for a lock holds none, and every task whose guard it waits for is at
\* the point where that guard is dropped, with no lock operation in between.
C39_NoDeadlock ==
  \A t \in Callers :
    /\ Cardinality(held[t]) <= 1
    /\ WaitsForLock(t) =>
         /\ held[t] = {}
         /\ \A h \in Blockers(t) : ENABLED LockRelease(h)

\* A task asks for the NodeMetrics lock while a task inside another function
\* holds a guard that keeps it waiting.
C39_Witness ==
  \E t \in Callers : \E h \in Callers \ {t} :
    /\ WaitsForLock(t)
    /\ LockOp(t).lock = NodeMetricsLock
    /\ h \in Blockers(t)
    /\ lock_pc[t].fn # lock_pc[h].fn

====
